---- MODULE Spec2Model ----
(***************************************************************************)
(* The reactivity core of Alf (signal / computed / effect / batch) and the *)
(* DOM renderer that binds it to nodes, as a call-stack machine.  All      *)
(* propagation in the source is synchronous and depth-first: a signal      *)
(* write notifies its listeners inside the write call, listeners run       *)
(* bodies that read and write other signals, and so on.  The model keeps   *)
(* the JavaScript call stack explicit (variable stack); a step executes    *)
(* one statement of the frame on top of it.  User code (effect bodies,     *)
(* computed bodies, batch callbacks) is drawn from a table of small        *)
(* programs.  While a call is in progress only the action of the frame on  *)
(* top of the stack is enabled, so a call always runs to its return; user  *)
(* code makes its next top-level call when the stack is empty.             *)
(***************************************************************************)
EXTENDS Integers, Sequences, FiniteSets, TLC

\* ---------------------------------------------------------------- bounds
MaxVal == 1          \* signal values range over 0..MaxVal
MaxEffects == 2      \* effects created in one behaviour
MaxOps == 3          \* top-level calls made by user code in one behaviour
MaxThrows == 1       \* exceptions thrown by user code in one behaviour
MaxLen == 2          \* length of an argument list and of an array child

\* ------------------------------------------------------- the user's graph
\* const a = signal(..); const b = signal(..); const sum = computed(a()+b())
\* and a second computed, guard, whose body calls batch, and a third,
\* total = computed(a() + sum()), a computed of a computed
a == 1
b == 2
sum == 1
guard == 2
total == 3
undefinedValue == -1

Signals == {a, b}
Computeds == {sum, guard, total}
Val == 0..MaxVal

Ins(op, x, v) == [op |-> op, x |-> x, v |-> v]

\* User functions.  An effect body / computed body / batch callback is a
\* straight-line sequence of calls into the reactivity API.
Programs ==
  [ readA       |-> << Ins("read", a, 0) >>,
    logSum      |-> << Ins("readc", sum, 0) >>,
    aThenSum    |-> << Ins("read", a, 0), Ins("readc", sum, 0) >>,
    readBwriteA |-> << Ins("read", b, 0), Ins("write", a, 1) >>,
    sumFn       |-> << Ins("read", a, 0), Ins("read", b, 0) >>,
    setBoth1    |-> << Ins("write", a, 1), Ins("write", b, 1) >>,
    setBoth0    |-> << Ins("write", a, 0), Ins("write", b, 0) >>,
    readB       |-> << Ins("read", b, 0) >>,
    readTwice   |-> << Ins("read", a, 0), Ins("read", a, 0) >>,
    sumTwice    |-> << Ins("readc", sum, 0), Ins("readc", sum, 0) >>,
    peeker      |-> << Ins("peek", a, 0), Ins("peekc", sum, 0),
                       Ins("read", b, 0) >>,
    nest        |-> << Ins("read", a, 0), Ins("effect", "readB", 0),
                       Ins("readc", sum, 0) >>,
    readBsum    |-> << Ins("read", b, 0), Ins("readc", sum, 0) >>,
    shield      |-> << Ins("batch", "readBsum", 0), Ins("read", a, 0) >>,
    guardFn     |-> << Ins("read", a, 0), Ins("batch", "readBsum", 0) >>,
    incA        |-> << Ins("read", a, 0), Ins("inc", a, 0) >>,
    readAwriteB |-> << Ins("read", a, 0), Ins("write", b, 1) >>,
    cleanWriter |-> << Ins("read", a, 0) >>,
    setA1       |-> << Ins("write", a, 1) >>,
    redirect    |-> << Ins("read", a, 0), Ins("write", a, 0) >>,
    totalFn     |-> << Ins("read", a, 0), Ins("readc", sum, 0) >>,
    diamond     |-> << Ins("readc", sum, 0), Ins("readc", total, 0) >>,
    branch      |-> << Ins("read", a, 0), Ins("returnIfSame", 1, 0),
                       Ins("read", b, 0) >>,
    updateCurrentRoute |-> << Ins("read", 1, 0), Ins("match", 0, 0),
                              Ins("writeRoute", 2, 0) >>,
    noop        |-> << >> ]

EffectFns == {"readA", "logSum", "aThenSum", "readBwriteA"}
BatchFns == {"setBoth1", "setBoth0"}
ComputedFn(c) ==
  CASE c = sum -> "sumFn"
    [] c = guard -> "guardFn"
    [] c = total -> "totalFn"

\* EffectFn = () => void | (() => void): which bodies return a cleanup
ReturnsCleanup(fn) == fn \in {"readA", "cleanWriter"}
\* the cleanup a body returns: one that does nothing observable, or one
\* that writes a signal
CleanupFn(fn) == IF fn = "cleanWriter" THEN "setA1" ELSE "noop"

\* Listener = () => void : an effect's execute or a computed's notifyListeners
Listener(k, id) == [k |-> k, id |-> id]
null == Listener("none", 0)

VARIABLES
  value,            \* signal: let value
  listeners,        \* signal: const listeners = new Set (insertion ordered)
  cvalue,           \* computed: let value
  isStale,          \* computed: let isStale
  clisteners,       \* computed: const listeners = new Set
  effects,          \* one record per effect() call: fn, cleanup, isRunning
  currentListener,  \* let currentListener
  listenerStack,    \* const listenerStack
  stack,            \* the call stack
  dom,              \* the document: nodes, the container's children, and
                    \* render's disposers list
  ev,               \* what the last step did (observation only)
  hist              \* counters (observation only):
                    \*   ops      top-level calls made so far
                    \*   changes  value-changing writes per signal
                    \*   cruns    executions of each computed's body
                    \*   since    the same, since the last value-changing write
                    \*   prevCall, curCall  the previous / current top-level call
                    \*   bt       the latest batch: whether fn is running, the
                    \*            value-changing writes fn made, the computed
                    \*            reads that returned while fn ran, the computed
                    \*            body executions since fn started
                    \*   creads   read() / peek() calls made on each computed
                    \*   throws   exceptions thrown by user code so far

vars == << value, listeners, cvalue, isStale, clisteners, effects,
           currentListener, listenerStack, stack, dom, ev, hist >>

Event(op, x, v, n) == [op |-> op, x |-> x, v |-> v, n |-> n]
NoEvent == Event("none", 0, 0, 0)

\* a call-stack frame: k is the kind of function that is executing, id the
\* signal / computed / effect it belongs to, fn its user program, pc the
\* next statement, prev the saved prevListener, acc its local result, w
\* whether the statement at pc has a call in progress; in the renderer els
\* are the elements under construction (innermost last), out the DOMNode[]
\* built so far and eff the effect whose dispose was returned last; run is
\* the number of the effect run a body or cleanup frame belongs to
Frame(k, id, fn, prev) ==
  [k |-> k, id |-> id, fn |-> fn, pc |-> 1, prev |-> prev, acc |-> 0,
   w |-> FALSE, ins |-> Ins("none", 0, 0),
   els |-> << >>, out |-> << >>, eff |-> 0, run |-> 0]

\* a DOM node: an element with attributes and children, or a text node
Absent == "(absent)"
AttrKeys == {"title", "id", "lang", "ref", "onClick", "onInput"}
Node(tag, text) ==
  [tag |-> tag, text |-> text, attrs |-> [k \in AttrKeys |-> Absent],
   children |-> << >>, events |-> << >>, refs |-> << >>]

Init ==
  /\ value \in [Signals -> Val]
  /\ listeners = [s \in Signals |-> << >>]
  /\ cvalue = [c \in Computeds |-> undefinedValue]
  /\ isStale = [c \in Computeds |-> TRUE]
  /\ clisteners = [c \in Computeds |-> << >>]
  /\ effects = << >>
  /\ currentListener = null
  /\ listenerStack = << >>
  /\ stack = << >>
  /\ dom = [nodes |-> << Node("#text", "old") >>,
            container |-> << 1 >>,
            disposers |-> << >>,
            state |-> "unmounted",
            tree |-> "none"]
  /\ ev = NoEvent
  /\ hist = [ops |-> 0,
             changes |-> [s \in Signals |-> 0],
             cruns |-> [c \in Computeds |-> 0],
             creads |-> [c \in Computeds |-> 0],
             throws |-> 0,
             since |-> [c \in Computeds |-> 0],
             prevCall |-> "none",
             curCall |-> "none",
             bt |-> [active |-> FALSE, chg |-> 0, reads |-> 0, execs |-> 0],
             childCalls |-> [s \in Signals |-> 0],
             built |-> << >>]

\* ------------------------------------------------------ virtual elements
\* AlfNode = AlfElement | string | number | boolean | null | undefined
Text(v) == [t |-> "string", v |-> v]
Number == [t |-> "number"]          \* the number the component has just read
Nullish == [t |-> "null"]           \* null, undefined, true, false
El(type, props, children) ==
  [t |-> "element", type |-> type, props |-> props, children |-> children]
Comp(fn) == [t |-> "component", fn |-> fn]
\* one entry of element.props: kind "static" (a string), "null", "function"
\* (a plain function, v its name) or "signal" / "computed" (a function with
\* a peek property)
Prop(key, kind, v) == [key |-> key, kind |-> kind, v |-> v]

\* component functions: the signals the function reads, then the element
\* it returns (Counter of tests/jsx.test.ts, with a bound attribute)
Components ==
  [ Counter |-> [reads |-> << Ins("read", a, 0) >>,
                 rendered |-> El("div", << Prop("title", "signal", b) >>,
                                 << Number >>)] ]

\* elements handed to render()
Trees ==
  [ hello   |-> El("div", << Prop("id", "static", "test"),
                            Prop("title", "signal", a) >>,
                   << Text("Hello World"), Nullish >>),
    sumDiv  |-> El("alf-fragment", << >>,
                   << El("div", << Prop("title", "computed", sum) >>, << >>) >>),
    counter |-> Comp("Counter"),
    frag    |-> El("alf-fragment", << >>,
                   << Text("x"), Nullish, Text("y") >>) ]

\* elements with every kind of attribute: handlers, refs, bound and static
\* values, under event names, "ref" and plain names
Forms ==
  [ button |-> El("button",
                  << Prop("onClick", "function", "handleClick"),
                     Prop("onInput", "signal", a),
                     Prop("ref", "signal", b),
                     Prop("title", "signal", a),
                     Prop("id", "static", "test") >>,
                  << Text("Save") >>),
    input  |-> El("input",
                  << Prop("ref", "function", "setNode"),
                     Prop("onClick", "static", "save()"),
                     Prop("id", "null", 0),
                     Prop("lang", "function", "pick"),
                     Prop("title", "computed", sum) >>,
                  << >>),
    plain  |-> El("p",
                  << Prop("ref", "static", "r"),
                     Prop("onInput", "null", 0),
                     Prop("title", "static", "t") >>,
                  << Text("x") >>) ]

RECURSIVE createDOMNode(_), createChildren(_)

\* typeof value === "function"; value.peek; key.startsWith("on")
IsFunction(p) == p.kind \in {"function", "signal", "computed"}
HasPeek(p) == p.kind \in {"signal", "computed"}
startsWith(key, prefix) ==
  Len(key) >= Len(prefix) /\ SubSeq(key, 1, Len(prefix)) = prefix
\* String.prototype.toLowerCase, letter by letter
UpperCase == "ABCDEFGHIJKLMNOPQRSTUVWXYZ"
LowerCase == "abcdefghijklmnopqrstuvwxyz"
RECURSIVE toLowerCase(_)
toLowerCase(str) ==
  IF Len(str) = 0 THEN ""
  ELSE LET c == SubSeq(str, 1, 1)
           U == {i \in 1..Len(UpperCase) : SubSeq(UpperCase, i, i) = c}
       IN (IF U = {} THEN c
           ELSE LET i == CHOOSE i \in U : TRUE IN SubSeq(LowerCase, i, i))
            \o toLowerCase(SubSeq(str, 2, Len(str)))
\* String(value) of a prop value: a string is itself, a function its source
StringOf(p) == IF IsFunction(p) THEN "function " \o ToString(p.v) ELSE p.v

createPropPeekFirst(p) ==
  IF IsFunction(p) /\ HasPeek(p)
  THEN << Ins("effectAttr", p.key, p), Ins("push", 0, 0) >>
  ELSE IF startsWith(p.key, "on") /\ IsFunction(p)
  THEN << Ins("addListener", toLowerCase(SubSeq(p.key, 3, Len(p.key))), p) >>
  ELSE IF p.key = "ref" /\ IsFunction(p)
  THEN << Ins("ref", 0, p) >>
  ELSE IF p.kind # "null"
  THEN << Ins("setAttribute", p.key, StringOf(p)) >>
  ELSE << >>

\* Object.entries(element.props).forEach(...): the statements for one prop
createProp(p) ==
  IF startsWith(p.key, "on") /\ IsFunction(p)
  THEN << Ins("addListener", toLowerCase(SubSeq(p.key, 3, Len(p.key))), p) >>
  ELSE IF p.key = "ref" /\ IsFunction(p)
  THEN << Ins("ref", 0, p) >>
  ELSE IF IsFunction(p) /\ HasPeek(p)
  THEN << Ins("effectAttr", p.key, p), Ins("push", 0, 0) >>
  ELSE IF p.kind # "null"
  THEN << Ins("setAttribute", p.key, StringOf(p)) >>
  ELSE << >>

RECURSIVE createProps(_)
createProps(props) ==
  IF Len(props) = 0 THEN << >>
  ELSE createProp(Head(props)) \o createProps(Tail(props))

createDOMElementWrapsFragment(element) ==
  << Ins("createElement", element.type, 0) >>
     \o createProps(element.props)
     \o createChildren(element.children)
     \o << Ins("returnElement", 0, 0) >>

\* const createDOMElement = (element) => ...
createDOMElement(element) ==
  IF element.type = "alf-fragment"
  THEN createChildren(element.children)
  ELSE << Ins("createElement", element.type, 0) >>
         \o createProps(element.props)
         \o createChildren(element.children)
         \o << Ins("returnElement", 0, 0) >>

\* const createComponent = (element) => ...
createComponent(element) ==
  << Ins("effect", element.fn, 0), Ins("push", 0, 0),
     Ins("returnDomNodes", 0, 0) >>

\* const createDOMNode = (node) => ... : the DOM and effect calls made for
\* node, in order
createDOMNode(node) ==
  CASE node.t = "null" -> << >>
    [] node.t = "string" -> << Ins("createTextNode", node.v, 0) >>
    [] node.t = "number" -> << Ins("createTextNodeOfNumber", 0, 0) >>
    [] node.t = "element" -> createDOMElement(node)
    [] node.t = "component" -> createComponent(node)

\* element.children.forEach(child => createDOMNode(child) ...)
createChildren(children) ==
  IF Len(children) = 0 THEN << >>
  ELSE createDOMNode(Head(children)) \o createChildren(Tail(children))

\* const renderComponent = () => { rendered = componentFn(props);
\*                                 domNodes = createDOMNode(rendered) }
renderComponent(fn) ==
  Components[fn].reads \o createDOMNode(Components[fn].rendered)
    \o << Ins("assignDomNodes", 0, 0) >>

\* const updateAttribute = () => { const val = value(); ... }
updateAttribute(src) ==
  << Ins(IF src.kind = "computed" THEN "readc" ELSE "read", src.v, 0),
     Ins("applyAttribute", 0, 0) >>

\* ---------------------------------------------------------- navigation
\* export const currentPath = signal(...), currentRoute = signal(null): in a
\* page that navigates these are the two signals of the graph; a path is one
\* of the values a signal holds, "/" being 0
currentPath == 1
currentRoute == 2
\* export function navigate(path, options = {})
navigate(path, options) ==
  << Ins("read", currentPath, 0), Ins("returnIfSame", path, 0) >>
    \o (IF dom.isBrowser
        THEN << Ins(IF options.replace THEN "replaceState" ELSE "pushState",
                    path, 0) >>
        ELSE << >>)
    \o << Ins("write", currentPath, path) >>

\* export function initRouter(routes)
initRouter(routes) ==
  << Ins("setRoutes", routes, 0) >>
    \o Programs["updateCurrentRoute"]
    \o (IF dom.isBrowser
        THEN << Ins("addEventListener", "popstate", 0) >>
        ELSE << >>)
    \o << Ins("effect", "updateCurrentRoute", 0) >>

\* window.location.pathname: the path of a history entry up to its "?"
pathnameOf(path) == [pathname |-> path.pathname, rest |-> << >>]
\* function handlePopState(), called with the entry the browser moved to
handlePopState(entry) ==
  IF dom.isBrowser
  THEN << Ins("write", currentPath, pathnameOf(entry)) >>
  ELSE << >>

\* the path "/"
home == [pathname |-> << >>, rest |-> << >>]
\* a page's not-found redirect:
\* effect(() => { if (currentRoute()) return; navigate("/", {replace: true}) })
notFound ==
  << Ins("read", currentRoute, 0), Ins("returnIfRoute", 0, 0) >>
    \o navigate(home, [replace |-> TRUE])

\* a signal passed as a child: h("span", null, a)
Fn(s) == [t |-> "function", s |-> s]
\* h(type, null, ...children) with signals among the children: what
\* flattenChildren does for each child in turn -- child() for a function,
\* then normalizedChildren.push -- and the return of the element
RECURSIVE hBody(_)
hBody(children) ==
  IF Len(children) = 0 THEN << >>
  ELSE LET child == Head(children)
       IN (CASE child.t = "null" -> << >>
             [] child.t = "array" -> hBody(child.items)
             [] child.t = "function" ->
                  << Ins("callChild", child.s, 0), Ins("pushString", 0, 0) >>
             [] OTHER -> << Ins("pushChild", child, 0) >>)
            \o hBody(Tail(children))
hCall(type, children) ==
  hBody(children) \o << Ins("hReturn", type, children) >>
\* an effect that builds a label:
\* effect(() => { label = h("span", null, "n=", a) })
labelFn == hCall("span", << Text("n="), Fn(a) >>)

\* ------------------------------------------------------------- helpers
Range(q) == {q[i] : i \in 1..Len(q)}
Pop(q) == SubSeq(q, 1, Len(q) - 1)
Top == stack[Len(stack)]
Running == stack # << >>
InBody ==
  Running /\ Top.k \in {"top", "execute", "update", "batch", "render", "cleanup"}
\* the statements a frame executes
Code(f) ==
  CASE f.k = "top" /\ f.ins.op \notin {"navigate", "initRouter", "popstate",
                                       "build"}
         -> << f.ins >>
    [] f.k = "top" /\ f.ins.op = "navigate" -> navigate(f.ins.x, f.ins.v)
    [] f.k = "top" /\ f.ins.op = "initRouter" -> initRouter(f.ins.x)
    [] f.k = "top" /\ f.ins.op = "popstate" -> handlePopState(f.ins.x)
    [] f.k = "execute" /\ f.fn = "notFound" -> notFound
    [] f.k = "top" /\ f.ins.op = "build" -> hCall(f.ins.x, f.ins.v)
    [] f.k = "execute" /\ f.fn = "label" -> labelFn
    [] f.k = "render" /\ f.fn \in DOMAIN Trees -> createDOMNode(Trees[f.fn])
    [] f.k = "render" /\ f.fn \in DOMAIN Forms -> createDOMNode(Forms[f.fn])
    [] f.k = "execute" /\ f.fn = "updateAttribute" -> updateAttribute(effects[f.id].src)
    [] f.k = "execute" /\ f.fn \in DOMAIN Components -> renderComponent(f.fn)
    [] OTHER -> Programs[f.fn]
AtEnd == Top.pc > Len(Code(Top))
Cur == Code(Top)[Top.pc]
At(op) == InBody /\ ~AtEnd /\ Cur.op = op
\* the caller's frame after the current statement has completed
Advance(stk, acc) ==
  [stk EXCEPT ![Len(stk)].pc = @ + 1, ![Len(stk)].acc = acc,
              ![Len(stk)].w = FALSE]

\* what a frame holds after a read returned v: the body of a computed adds
\* its reads (a() + b(), where + takes null as 0), other code keeps the
\* value it read last
ToNumber(v) == IF v = undefinedValue THEN 0 ELSE v
Returned(f, v) == IF f.k = "update" THEN f.acc + ToNumber(v) ELSE v

SetAddAgain(q, l) == Append(q, l)

\* Set.add: a listener is stored once, in insertion order
SetAdd(q, l) == IF l \in Range(q) THEN q ELSE Append(q, l)

SubscribeNobody(q) == q

\* if (currentListener) listeners.add(currentListener)
Subscribe(q) == IF currentListener # null THEN SetAdd(q, currentListener) ELSE q


\* ------------------------------------------------------------ reactivity
startBodyKeepsContext(effs, e, stk) ==
  /\ effects' = [effs EXCEPT ![e].isRunning = TRUE,
                             ![e].runs = @ + 1,
                             ![e].calls = Append(@, 0)]
  /\ currentListener' = currentListener
  /\ listenerStack' = Append(listenerStack, Listener("e", e))
  /\ stack' = Append(stk, [Frame("execute", e, effs[e].fn, currentListener)
                             EXCEPT !.run = effs[e].runs + 1])

\* effect: execute from isRunning = true up to the call of fn()
startBody(effs, e, stk) ==
  /\ effects' = [effs EXCEPT ![e].isRunning = TRUE,
                             ![e].runs = @ + 1,
                             ![e].calls = Append(@, 0)]
  /\ currentListener' = Listener("e", e)
  /\ listenerStack' = Append(listenerStack, Listener("e", e))
  /\ stack' = Append(stk, [Frame("execute", e, effs[e].fn, currentListener)
                             EXCEPT !.run = effs[e].runs + 1])

\* if (cleanup) { cleanup(); ... : the call of the stored cleanup, made by
\* execute or by the returned dispose function (by)
callCleanup(effs, e, stk, by) ==
  /\ effects' = [effs EXCEPT ![e].cleanups = @ + 1,
                             ![e].calls[effs[e].cid] = @ + 1]
  /\ stack' = Append(stk, [Frame("cleanup", e, CleanupFn(effs[e].fn), null)
                             EXCEPT !.ins = Ins(by, e, 0),
                                    !.run = effs[e].cid])

executeUnguarded(effs, e, stk) ==
  IF effs[e].cleanup
  THEN /\ callCleanup(effs, e, stk, "execute")
       /\ UNCHANGED << currentListener, listenerStack >>
  ELSE startBody(effs, e, stk)

\* effect: const execute = () => { if (isRunning) return; if (cleanup) ...
execute(effs, e, stk) ==
  IF effs[e].isRunning
  THEN /\ effects' = effs
       /\ stack' = stk
       /\ UNCHANGED << currentListener, listenerStack >>
  ELSE IF effs[e].cleanup
       THEN /\ callCleanup(effs, e, stk, "execute")
            /\ UNCHANGED << currentListener, listenerStack >>
       ELSE startBody(effs, e, stk)

\* cleanup() has returned: cleanup = undefined; execute goes on to run the
\* body, dispose returns
CleanupDone ==
  /\ Running /\ Top.k = "cleanup" /\ AtEnd
  /\ IF Top.ins.op = "execute"
     THEN startBody([effects EXCEPT ![Top.id].cleanup = FALSE], Top.id,
                    Pop(stack))
     ELSE /\ effects' = [effects EXCEPT ![Top.id].cleanup = FALSE]
          /\ stack' = Pop(stack)
          /\ UNCHANGED << currentListener, listenerStack >>
  /\ ev' = Event("cleanupRet", Top.id, Top.run, 0)
  /\ UNCHANGED << dom, value, listeners, cvalue, isStale, clisteners, hist >>

notifyListenersKeepsFresh(c, stk) ==
  /\ isStale' = isStale
  /\ stack' = Append(stk, Frame("forEachC", c, "none", null))

notifyListenersRecomputes(c, stk) ==
  /\ isStale' = [isStale EXCEPT ![c] = TRUE]
  /\ stack' = Append(stk, Frame("update", c, ComputedFn(c), currentListener))

\* computed: const notifyListeners = () => { isStale = true; forEach ... }
notifyListeners(c, stk) ==
  /\ isStale' = [isStale EXCEPT ![c] = TRUE]
  /\ stack' = Append(stk, Frame("forEachC", c, "none", null))

\* listener() inside listeners.forEach
Invoke(l, stk) ==
  IF l.k = "e"
  THEN execute(effects, l.id, stk) /\ UNCHANGED isStale
  ELSE notifyListeners(l.id, stk)
       /\ UNCHANGED << effects, currentListener, listenerStack >>

ListenersOfFirstOnly(f) ==
  LET q == IF f.k = "forEachS" THEN listeners[f.id] ELSE clisteners[f.id]
  IN SubSeq(q, 1, IF Len(q) > 0 THEN 1 ELSE 0)

ListenersOf(f) == IF f.k = "forEachS" THEN listeners[f.id] ELSE clisteners[f.id]

\* one iteration of listeners.forEach(listener => listener()); the Set is
\* visited in insertion order, entries added during the visit included
ForEachInvoke ==
  /\ Running /\ Top.k \in {"forEachS", "forEachC"}
  /\ Top.pc <= Len(ListenersOf(Top))
  /\ Invoke(ListenersOf(Top)[Top.pc], Advance(stack, Top.acc + 1))
  /\ ev' = Event("invoke", ListenersOf(Top)[Top.pc].id, 0, 0)
  /\ UNCHANGED << dom, value, listeners, cvalue, clisteners, hist >>

\* forEach has visited every entry: write / notifyListeners returns
ForEachDone ==
  /\ Running /\ Top.k \in {"forEachS", "forEachC"}
  /\ Top.pc > Len(ListenersOf(Top))
  /\ stack' = Pop(stack)
  /\ ev' = Event(IF Top.k = "forEachS" THEN "writeRet" ELSE "notifyRet",
                 Top.id, 0, Top.acc)
  /\ UNCHANGED << dom, value, listeners, cvalue, isStale, clisteners, effects,
                  currentListener, listenerStack, hist >>

\* signal: const read = () => { ... }
SignalRead ==
  /\ At("read")
  /\ listeners' = [listeners EXCEPT ![Cur.x] = Subscribe(@)]
  /\ stack' = Advance(stack, Returned(Top, value[Cur.x]))
  /\ ev' = Event("read", Cur.x, value[Cur.x], 0)
  /\ UNCHANGED << dom, value, cvalue, isStale, clisteners, effects,
                  currentListener, listenerStack, hist >>

ChangedAlways(old, new) == TRUE

\* value !== newValue
Changed(old, new) == old # new

StoredAfterNotify(s, v) == value

\* value = newValue
Stored(s, v) == [value EXCEPT ![s] = v]

NotifyUnlessBatching(s, stk) ==
  IF \E i \in 1..Len(stk) : stk[i].k = "batch"
  THEN stk
  ELSE Append(stk, Frame("forEachS", s, "none", null))

\* listeners.forEach(listener => listener())
Notify(s, stk) == Append(stk, Frame("forEachS", s, "none", null))

\* the argument of a write: a constant, or for a(a() + 1) the successor of
\* the value read last (values wrap around at MaxVal)
NewValue == IF Cur.op = "inc" THEN (Top.acc + 1) % (MaxVal + 1) ELSE Cur.v

\* signal: const write = (newValue) => { ... }
SignalWrite ==
  /\ At("write") \/ At("inc")
  /\ IF Changed(value[Cur.x], NewValue)
     THEN /\ value' = Stored(Cur.x, NewValue)
          /\ stack' = Notify(Cur.x, Advance(stack, Top.acc))
          /\ hist' = [hist EXCEPT
               !.changes[Cur.x] = @ + 1,
               !.since = [c \in Computeds |-> 0],
               !.bt.chg = @ + (IF Top.k = "batch" THEN 1 ELSE 0)]
          /\ effects' = [e \in 1..Len(effects) |->
               [effects[e] EXCEPT !.ext[Cur.x] =
                  @ + (IF effects[e].isRunning THEN 0 ELSE 1)]]
     ELSE /\ stack' = Advance(stack, Top.acc)
          /\ UNCHANGED << value, hist, effects >>
  /\ ev' = Event("write", Cur.x, NewValue, value[Cur.x])
  /\ UNCHANGED << dom, listeners, cvalue, isStale, clisteners,
                  currentListener, listenerStack >>

SignalPeekTracks ==
  /\ At("peek")
  /\ listeners' = [listeners EXCEPT ![Cur.x] = Subscribe(@)]
  /\ stack' = Advance(stack, Returned(Top, value[Cur.x]))
  /\ ev' = Event("peek", Cur.x, value[Cur.x], 0)
  /\ UNCHANGED << dom, value, cvalue, isStale, clisteners, effects,
                  currentListener, listenerStack, hist >>

\* signal: const peek = () => value
SignalPeek ==
  /\ At("peek")
  /\ stack' = Advance(stack, Returned(Top, value[Cur.x]))
  /\ ev' = Event("peek", Cur.x, value[Cur.x], 0)
  /\ UNCHANGED << dom, value, listeners, cvalue, isStale, clisteners, effects,
                  currentListener, listenerStack, hist >>

\* computed: const read = () => { if (isStale) update(); ... } where update
\* saves the context and calls fn()
ComputedRead ==
  /\ At("readc")
  /\ IF ~Top.w /\ isStale[Cur.x]
     THEN /\ stack' = Append([stack EXCEPT ![Len(stack)].w = TRUE],
                Frame("update", Cur.x, ComputedFn(Cur.x), currentListener))
          /\ currentListener' = Listener("c", Cur.x)
          /\ listenerStack' = Append(listenerStack, Listener("c", Cur.x))
          /\ hist' = [hist EXCEPT !.cruns[Cur.x] = @ + 1,
                                  !.since[Cur.x] = @ + 1,
                                  !.bt.execs = @ + 1,
                                  !.creads[Cur.x] = @ + 1]
          /\ ev' = Event("update", Cur.x, 0, 0)
          /\ UNCHANGED clisteners
     ELSE /\ clisteners' = [clisteners EXCEPT ![Cur.x] = Subscribe(@)]
          /\ stack' = Advance(stack, Returned(Top, cvalue[Cur.x]))
          /\ ev' = Event("readcRet", Cur.x, cvalue[Cur.x], Len(stack))
          /\ hist' = [hist EXCEPT
               !.bt.reads = @ + (IF hist.bt.active THEN 1 ELSE 0),
               !.creads[Cur.x] = @ + (IF Top.w THEN 0 ELSE 1)]
          /\ UNCHANGED << currentListener, listenerStack >>
  /\ UNCHANGED << dom, value, listeners, cvalue, isStale, effects >>

\* computed: const peek = () => { if (isStale) update(); return value }
ComputedPeek ==
  /\ At("peekc")
  /\ IF ~Top.w /\ isStale[Cur.x]
     THEN /\ stack' = Append([stack EXCEPT ![Len(stack)].w = TRUE],
                Frame("update", Cur.x, ComputedFn(Cur.x), currentListener))
          /\ currentListener' = Listener("c", Cur.x)
          /\ listenerStack' = Append(listenerStack, Listener("c", Cur.x))
          /\ hist' = [hist EXCEPT !.cruns[Cur.x] = @ + 1,
                                  !.since[Cur.x] = @ + 1,
                                  !.bt.execs = @ + 1,
                                  !.creads[Cur.x] = @ + 1]
          /\ ev' = Event("update", Cur.x, 0, 0)
     ELSE /\ stack' = Advance(stack, Returned(Top, cvalue[Cur.x]))
          /\ ev' = Event("peekcRet", Cur.x, cvalue[Cur.x],
                         IF Top.w THEN 1 ELSE 0)
          /\ hist' = [hist EXCEPT
               !.creads[Cur.x] = @ + (IF Top.w THEN 0 ELSE 1)]
          /\ UNCHANGED << currentListener, listenerStack >>
  /\ UNCHANGED << dom, value, listeners, cvalue, isStale, clisteners, effects >>

\* computed: update after fn() returned: value = fn(); isStale = false;
\* finally { listenerStack.pop(); currentListener = prevListener }
UpdateDone ==
  /\ Running /\ Top.k = "update" /\ AtEnd
  /\ cvalue' = [cvalue EXCEPT ![Top.id] = Top.acc]
  /\ isStale' = [isStale EXCEPT ![Top.id] = FALSE]
  /\ listenerStack' = Pop(listenerStack)
  /\ currentListener' = Top.prev
  /\ stack' = Pop(stack)
  /\ ev' = Event("updateRet", Top.id, Top.acc, 0)
  /\ UNCHANGED << dom, value, listeners, clisteners, effects, hist >>

\* effect: execute after fn() returned: cleanup = fn(); finally { ... }
ExecuteDone ==
  /\ Running /\ Top.k = "execute" /\ AtEnd
  /\ effects' = [effects EXCEPT ![Top.id].cleanup = ReturnsCleanup(Top.fn),
                                ![Top.id].cid = Top.run,
                                ![Top.id].isRunning = FALSE]
  /\ listenerStack' = Pop(listenerStack)
  /\ currentListener' = Top.prev
  /\ stack' = Pop(stack)
  /\ ev' = Event("executeRet", Top.id, 0, 0)
  /\ UNCHANGED << dom, value, listeners, cvalue, isStale, clisteners, hist >>

NewEffect(fn) ==
  [fn |-> fn, cleanup |-> FALSE, isRunning |-> FALSE, runs |-> 0,
   cleanups |-> 0, disposed |-> FALSE, born |-> hist.changes, mark |-> 0,
   calls |-> << >>, cid |-> 0, ext |-> [s \in Signals |-> 0],
   el |-> 0, key |-> "none", src |-> Ins("none", 0, 0), domNodes |-> << >>]

\* export function effect(fn): allocate the closure, execute()
EffectCall ==
  /\ At("effect")
  /\ execute(Append(effects, NewEffect(Cur.x)), Len(effects) + 1,
             [Advance(stack, Top.acc) EXCEPT ![Len(stack)].eff = Len(effects) + 1])
  /\ ev' = Event("effect", Len(effects) + 1, 0, 0)
  /\ UNCHANGED << dom, value, listeners, cvalue, isStale, clisteners, hist >>

\* the function returned by effect(), for an effect that holds no cleanup:
\* if (cleanup) is false and nothing is done
dispose(effs, e) == [effs EXCEPT ![e].disposed = TRUE]

\* the function returned by effect(): if (cleanup) { cleanup(); ... }
DisposeCall ==
  /\ At("dispose")
  /\ IF effects[Cur.x].cleanup
     THEN callCleanup(dispose(effects, Cur.x), Cur.x, Advance(stack, Top.acc),
                      "dispose")
     ELSE /\ effects' = dispose(effects, Cur.x)
          /\ stack' = Advance(stack, Top.acc)
  /\ ev' = Event("dispose", Cur.x, 0, 0)
  /\ UNCHANGED << dom, value, listeners, cvalue, isStale, clisteners,
                  currentListener, listenerStack, hist >>

batchContextKept(l) == l

\* batch: currentListener = null
batchContext(l) == null

\* export function batch(fn): save the context, clear it, call fn()
BatchCall ==
  /\ At("batch")
  /\ currentListener' = batchContext(currentListener)
  /\ stack' = Append(Advance(stack, Top.acc),
                     Frame("batch", 0, Cur.x, currentListener))
  /\ ev' = Event("batch", 0, 0, 0)
  /\ effects' = [e \in 1..Len(effects) |->
                  [effects[e] EXCEPT !.mark = effects[e].runs]]
  /\ hist' = [hist EXCEPT
       !.bt = [active |-> TRUE, chg |-> 0, reads |-> 0, execs |-> 0]]
  /\ UNCHANGED << dom, value, listeners, cvalue, isStale, clisteners,
                  listenerStack >>

\* batch: finally { currentListener = prevListener }
BatchDone ==
  /\ Running /\ Top.k = "batch" /\ AtEnd
  /\ currentListener' = Top.prev
  /\ stack' = Pop(stack)
  /\ ev' = Event("batchRet", 0, 0, 0)
  /\ hist' = [hist EXCEPT !.bt.active = FALSE]
  /\ UNCHANGED << dom, value, listeners, cvalue, isStale, clisteners, effects,
                  listenerStack >>

\* the user's top-level statement has completed
Return ==
  /\ Running /\ Top.k = "top" /\ AtEnd
  /\ stack' = Pop(stack)
  /\ ev' = Event("return", 0, 0, 0)
  /\ UNCHANGED << dom, value, listeners, cvalue, isStale, clisteners, effects,
                  currentListener, listenerStack, hist >>

\* Calls user code makes from outside any computation
TopCalls ==
  {Ins("write", s, v) : s \in Signals, v \in Val}
    \cup {Ins("readc", sum, 0)}
    \cup {Ins("effect", fn, 0) : fn \in
             (IF Len(effects) < MaxEffects THEN EffectFns ELSE {})}
    \cup {Ins("dispose", e, 0) : e \in 1..Len(effects)}
    \cup {Ins("batch", fn, 0) : fn \in BatchFns}

\* user code at top level calls into the API
CallOf(calls) ==
  /\ ~Running
  /\ hist.ops < MaxOps
  /\ \E ins \in calls :
       /\ stack' = << [Frame("top", 0, "none", null) EXCEPT !.ins = ins] >>
       /\ hist' = [hist EXCEPT !.ops = @ + 1,
                               !.prevCall = hist.curCall,
                               !.curCall = ins.op]
  /\ ev' = Event("call", 0, 0, 0)
  /\ UNCHANGED << dom, value, listeners, cvalue, isStale, clisteners, effects,
                  currentListener, listenerStack >>

Call == CallOf(TopCalls)

Next ==
  \/ Call
  \/ SignalRead
  \/ SignalWrite
  \/ ComputedRead
  \/ UpdateDone
  \/ EffectCall
  \/ ExecuteDone
  \/ DisposeCall
  \/ BatchCall
  \/ BatchDone
  \/ ForEachInvoke
  \/ ForEachDone
  \/ CleanupDone
  \/ Return

Spec == Init /\ [][Next]_vars

\* ------------------------------------------------------ dependency edges
\* user code that reads, peeks and nests computations
TrackCalls ==
  {Ins("write", s, v) : s \in Signals, v \in Val}
    \cup {Ins("read", a, 0), Ins("peek", a, 0),
          Ins("readc", sum, 0), Ins("peekc", sum, 0)}
    \cup {Ins("effect", fn, 0) : fn \in
             (IF Len(effects) < MaxEffects
              THEN {"nest", "peeker", "readTwice", "sumTwice"} ELSE {})}

CallTracking == CallOf(TrackCalls)

NextTrack ==
  \/ CallTracking
  \/ SignalRead
  \/ SignalPeek
  \/ SignalWrite
  \/ ComputedRead
  \/ ComputedPeek
  \/ UpdateDone
  \/ EffectCall
  \/ ExecuteDone
  \/ ForEachInvoke
  \/ ForEachDone
  \/ Return

SpecTrack == Init /\ [][NextTrack]_vars

\* --------------------------------------------------- effects that write
\* user code whose effects write signals: one increments the signal it
\* reads, two others write each other's input
WriterCalls ==
  {Ins("write", s, v) : s \in Signals, v \in Val}
    \cup {Ins("effect", fn, 0) : fn \in
             (IF Len(effects) < MaxEffects
              THEN {"incA", "readBwriteA", "readAwriteB"} ELSE {})}

CallWriting == CallOf(WriterCalls)

NextWriters ==
  \/ CallWriting
  \/ SignalRead
  \/ SignalWrite
  \/ EffectCall
  \/ ExecuteDone
  \/ ForEachInvoke
  \/ ForEachDone
  \/ Return

\* every call in the source is synchronous: a call that has started keeps
\* executing until it returns
SpecWriters == Init /\ [][NextWriters]_vars /\ WF_vars(NextWriters)

\* -------------------------------------------------------------- cleanups
\* user code with effects that return a cleanup: one that does nothing
\* observable and one that writes the signal its effect reads
CleanupCalls ==
  {Ins("write", s, v) : s \in Signals, v \in Val}
    \cup {Ins("effect", fn, 0) : fn \in
             (IF Len(effects) < MaxEffects THEN {"readA", "cleanWriter"} ELSE {})}
    \cup {Ins("dispose", e, 0) : e \in 1..Len(effects)}

CallCleaning == CallOf(CleanupCalls)

NextCleanup ==
  \/ CallCleaning
  \/ SignalRead
  \/ SignalWrite
  \/ EffectCall
  \/ ExecuteDone
  \/ DisposeCall
  \/ ForEachInvoke
  \/ ForEachDone
  \/ CleanupDone
  \/ Return

SpecCleanup == Init /\ [][NextCleanup]_vars

\* ------------------------------------------------------------ exceptions
\* The body of an effect, of a computed or of a batch callback throws: the
\* exception is a frame on top of the stack that unwinds the frames below
\* it, one per step, running each one's finally block.
Throw ==
  /\ InBody /\ Top.k \in {"execute", "update", "batch"} /\ ~Top.w
  /\ hist.throws < MaxThrows
  /\ stack' = Append(stack, Frame("throw", 0, "none", null))
  /\ hist' = [hist EXCEPT !.throws = @ + 1]
  /\ ev' = Event("throw", Top.id, 0, 0)
  /\ UNCHANGED << dom, value, listeners, cvalue, isStale, clisteners, effects,
                  currentListener, listenerStack >>

finallySkipped(f) ==
  [cl |-> currentListener, ls |-> listenerStack, effs |-> effects]

\* what the finally block of frame f leaves: update and execute pop the
\* context stack and restore prevListener, execute clears isRunning, batch
\* restores prevListener; the other functions have no finally
finally(f) ==
  [cl   |-> IF f.k \in {"execute", "update", "batch"}
            THEN f.prev ELSE currentListener,
   ls   |-> IF f.k \in {"execute", "update"}
            THEN Pop(listenerStack) ELSE listenerStack,
   effs |-> IF f.k = "execute"
            THEN [effects EXCEPT ![f.id].isRunning = FALSE] ELSE effects]

UnwindResumes ==
  /\ Running /\ Top.k = "throw"
  /\ LET f == stack[Len(stack) - 1]
         after == finally(f)
     IN /\ currentListener' = after.cl
        /\ listenerStack' = after.ls
        /\ effects' = after.effs
        /\ stack' = IF f.k = "top" THEN << >>
                    ELSE IF f.k = "forEachS" THEN Pop(stack)
                    ELSE Append(SubSeq(stack, 1, Len(stack) - 2), Top)
        /\ ev' = Event(CASE f.k = "execute" -> "executeThrown"
                         [] f.k = "update" -> "updateThrown"
                         [] f.k = "batch" -> "batchThrown"
                         [] f.k = "top" -> "caught"
                         [] OTHER -> "unwound", f.id, 0, 0)
  /\ UNCHANGED << dom, value, listeners, cvalue, isStale, clisteners, hist >>

\* the exception leaves the function below it; user code at top level
\* catches it
Unwind ==
  /\ Running /\ Top.k = "throw"
  /\ LET f == stack[Len(stack) - 1]
         after == finally(f)
     IN /\ currentListener' = after.cl
        /\ listenerStack' = after.ls
        /\ effects' = after.effs
        /\ stack' = IF f.k = "top" THEN << >>
                    ELSE Append(SubSeq(stack, 1, Len(stack) - 2), Top)
        /\ ev' = Event(CASE f.k = "execute" -> "executeThrown"
                         [] f.k = "update" -> "updateThrown"
                         [] f.k = "batch" -> "batchThrown"
                         [] f.k = "top" -> "caught"
                         [] OTHER -> "unwound", f.id, 0, 0)
  /\ UNCHANGED << dom, value, listeners, cvalue, isStale, clisteners, hist >>

\* user code whose computations may throw: effects that read inside and
\* after a batch, reads of both computeds, reads and writes of the signals
ThrowCalls ==
  {Ins("write", s, v) : s \in Signals, v \in Val}
    \cup {Ins("read", a, 0), Ins("readc", sum, 0), Ins("readc", guard, 0)}
    \cup {Ins("effect", fn, 0) : fn \in
             (IF Len(effects) < MaxEffects THEN {"shield", "aThenSum"} ELSE {})}

CallThrowing == CallOf(ThrowCalls)

NextThrow ==
  \/ CallThrowing
  \/ SignalRead
  \/ SignalWrite
  \/ ComputedRead
  \/ UpdateDone
  \/ EffectCall
  \/ ExecuteDone
  \/ BatchCall
  \/ BatchDone
  \/ ForEachInvoke
  \/ ForEachDone
  \/ Return
  \/ Throw
  \/ Unwind

SpecThrow == Init /\ [][NextThrow]_vars

\* -------------------------------------------------------------- renderer
NodeIds == 1..Len(dom.nodes)
TopEl(f) == f.els[Len(f.els)]

\* nodes ns are returned to the caller: appended by the parent element
\* (domElement.appendChild) or pushed to the DOMNode[] being returned
NodesWith(f, ns) ==
  IF Len(f.els) > 0
  THEN [dom.nodes EXCEPT ![TopEl(f)].children = @ \o ns]
  ELSE dom.nodes
FrameWith(f, ns) ==
  IF Len(f.els) > 0 THEN f ELSE [f EXCEPT !.out = @ \o ns]
Deliver(ns) ==
  /\ dom' = [dom EXCEPT !.nodes = NodesWith(Top, ns)]
  /\ stack' = Advance([stack EXCEPT ![Len(stack)] = FrameWith(Top, ns)], Top.acc)

\* export function render(element, container): disposers = [], then the
\* initial createDOMNode(element)
RenderCall ==
  /\ At("render")
  /\ dom' = [dom EXCEPT !.disposers = << >>, !.tree = Cur.x]
  /\ stack' = Append(Advance(stack, Top.acc), Frame("render", 0, Cur.x, null))
  /\ ev' = Event("render", 0, 0, 0)
  /\ UNCHANGED << value, listeners, cvalue, isStale, clisteners, effects,
                  currentListener, listenerStack, hist >>

RenderDoneMerges ==
  /\ Running /\ Top.k = "render" /\ AtEnd
  /\ dom' = [dom EXCEPT !.container = @ \o Top.out, !.state = "mounted"]
  /\ stack' = Pop(stack)
  /\ ev' = Event("renderRet", 0, 0, 0)
  /\ UNCHANGED << value, listeners, cvalue, isStale, clisteners, effects,
                  currentListener, listenerStack, hist >>

\* render: container.innerHTML = ""; domNodes.forEach(appendChild);
\* return the disposer
RenderDone ==
  /\ Running /\ Top.k = "render" /\ AtEnd
  /\ dom' = [dom EXCEPT !.container = Top.out, !.state = "mounted"]
  /\ stack' = Pop(stack)
  /\ ev' = Event("renderRet", 0, 0, 0)
  /\ UNCHANGED << value, listeners, cvalue, isStale, clisteners, effects,
                  currentListener, listenerStack, hist >>

\* const domElement = document.createElement(type)
CreateElement ==
  /\ At("createElement")
  /\ dom' = [dom EXCEPT !.nodes = Append(@, Node(Cur.x, ""))]
  /\ stack' = [Advance(stack, Top.acc) EXCEPT
                 ![Len(stack)].els = Append(@, Len(dom.nodes) + 1)]
  /\ ev' = Event("createElement", Len(dom.nodes) + 1, 0, 0)
  /\ UNCHANGED << value, listeners, cvalue, isStale, clisteners, effects,
                  currentListener, listenerStack, hist >>

\* static attribute: domElement.setAttribute(key, String(value))
SetAttribute ==
  /\ At("setAttribute")
  /\ dom' = [dom EXCEPT !.nodes[TopEl(Top)].attrs[Cur.x] = Cur.v]
  /\ stack' = Advance(stack, Top.acc)
  /\ ev' = Event("setAttribute", TopEl(Top), 0, 0)
  /\ UNCHANGED << value, listeners, cvalue, isStale, clisteners, effects,
                  currentListener, listenerStack, hist >>

\* reactive attribute: const dispose = effect(updateAttribute)
AttrEffectCall ==
  /\ At("effectAttr")
  /\ execute(Append(effects, [NewEffect("updateAttribute") EXCEPT
                 !.el = TopEl(Top), !.key = Cur.x, !.src = Cur.v]),
             Len(effects) + 1,
             [Advance(stack, Top.acc) EXCEPT ![Len(stack)].eff = Len(effects) + 1])
  /\ ev' = Event("effect", Len(effects) + 1, 0, 0)
  /\ UNCHANGED << dom, value, listeners, cvalue, isStale, clisteners, hist >>

\* disposers.push(dispose)
PushDisposer ==
  /\ At("push")
  /\ dom' = [dom EXCEPT !.disposers = Append(@, Top.eff)]
  /\ stack' = Advance(stack, Top.acc)
  /\ ev' = Event("push", Top.eff, 0, 0)
  /\ UNCHANGED << value, listeners, cvalue, isStale, clisteners, effects,
                  currentListener, listenerStack, hist >>

AttrValueAlwaysSet(val) == ToString(val)

\* updateAttribute: if (val == null) removeAttribute(key)
\*                  else setAttribute(key, String(val))
\* (String(val) of a number is its decimal form, ToString of module TLC)
AttrValue(val) == IF val = undefinedValue THEN Absent ELSE ToString(val)

ApplyAttribute ==
  /\ At("applyAttribute")
  /\ dom' = [dom EXCEPT
       !.nodes[effects[Top.id].el].attrs[effects[Top.id].key] = AttrValue(Top.acc)]
  /\ stack' = Advance(stack, Top.acc)
  /\ ev' = Event("updateAttribute", effects[Top.id].el, 0, 0)
  /\ UNCHANGED << value, listeners, cvalue, isStale, clisteners, effects,
                  currentListener, listenerStack, hist >>

\* return [document.createTextNode(String(node))]
CreateTextNode ==
  /\ At("createTextNode") \/ At("createTextNodeOfNumber")
  /\ LET txt == IF Cur.op = "createTextNode" THEN Cur.x ELSE ToString(Top.acc)
         n == Len(dom.nodes) + 1
     IN /\ dom' = [dom EXCEPT !.nodes =
               Append(NodesWith(Top, << n >>), Node("#text", txt))]
        /\ stack' = Advance([stack EXCEPT ![Len(stack)] = FrameWith(Top, << n >>)],
                            Top.acc)
  /\ ev' = Event("createTextNode", Len(dom.nodes) + 1, 0, 0)
  /\ UNCHANGED << value, listeners, cvalue, isStale, clisteners, effects,
                  currentListener, listenerStack, hist >>

\* createDOMElement: return [domElement]
ReturnElement ==
  /\ At("returnElement")
  /\ LET f == [Top EXCEPT !.els = Pop(@)]
     IN /\ dom' = [dom EXCEPT !.nodes = NodesWith(f, << TopEl(Top) >>)]
        /\ stack' = Advance([stack EXCEPT ![Len(stack)] =
                               FrameWith(f, << TopEl(Top) >>)], Top.acc)
  /\ ev' = Event("returnElement", TopEl(Top), 0, 0)
  /\ UNCHANGED << value, listeners, cvalue, isStale, clisteners, effects,
                  currentListener, listenerStack, hist >>

\* renderComponent: domNodes = createDOMNode(rendered)
AssignDomNodes ==
  /\ At("assignDomNodes")
  /\ effects' = [effects EXCEPT ![Top.id].domNodes = Top.out]
  /\ stack' = Advance(stack, Top.acc)
  /\ ev' = Event("renderComponent", Top.id, 0, 0)
  /\ UNCHANGED << dom, value, listeners, cvalue, isStale, clisteners,
                  currentListener, listenerStack, hist >>

\* createComponent: return domNodes
ReturnDomNodes ==
  /\ At("returnDomNodes")
  /\ Deliver(effects[Top.eff].domNodes)
  /\ ev' = Event("createComponent", Top.eff, 0, 0)
  /\ UNCHANGED << value, listeners, cvalue, isStale, clisteners, effects,
                  currentListener, listenerStack, hist >>

RECURSIVE disposeEach(_, _)
\* disposers.forEach(dispose => dispose())
disposeEach(effs, q) ==
  IF Len(q) = 0 THEN effs ELSE disposeEach(dispose(effs, Head(q)), Tail(q))

\* the function returned by render(): dispose every effect, clear the list
DisposeAll ==
  /\ At("disposeAll")
  /\ effects' = disposeEach(effects, dom.disposers)
  /\ dom' = [dom EXCEPT !.disposers = << >>, !.state = "disposed"]
  /\ stack' = Advance(stack, Top.acc)
  /\ ev' = Event("disposeAll", 0, 0, 0)
  /\ UNCHANGED << value, listeners, cvalue, isStale, clisteners,
                  currentListener, listenerStack, hist >>

\* calls user code makes on a page: render once, write signals (b also
\* with null), dispose
RenderCalls ==
  {Ins("write", s, v) : s \in Signals, v \in Val}
    \cup {Ins("write", b, undefinedValue)}
    \cup {Ins("render", t, 0) : t \in
             (IF dom.state = "unmounted" THEN DOMAIN Trees ELSE {})}
    \cup {Ins("disposeAll", 0, 0) : x \in
             (IF dom.state = "mounted" THEN {0} ELSE {})}

PageCall == CallOf(RenderCalls)

NextRender ==
  \/ PageCall
  \/ RenderCall
  \/ RenderDone
  \/ CreateElement
  \/ SetAttribute
  \/ AttrEffectCall
  \/ PushDisposer
  \/ ApplyAttribute
  \/ CreateTextNode
  \/ ReturnElement
  \/ AssignDomNodes
  \/ ReturnDomNodes
  \/ DisposeAll
  \/ SignalRead
  \/ SignalWrite
  \/ ComputedRead
  \/ UpdateDone
  \/ EffectCall
  \/ ExecuteDone
  \/ ForEachInvoke
  \/ ForEachDone
  \/ Return

SpecRender == Init /\ [][NextRender]_vars

\* ------------------------------------------------------ chains, diamonds
\* user code with a computed of a computed (total reads a and sum) and an
\* effect that reads both computeds of a
ChainCalls ==
  {Ins("write", s, v) : s \in Signals, v \in Val}
    \cup {Ins("readc", sum, 0), Ins("readc", total, 0)}
    \cup {Ins("effect", fn, 0) : fn \in
             (IF Len(effects) < MaxEffects THEN {"diamond"} ELSE {})}

CallChain == CallOf(ChainCalls)

NextChain ==
  \/ CallChain
  \/ SignalRead
  \/ SignalWrite
  \/ ComputedRead
  \/ UpdateDone
  \/ EffectCall
  \/ ExecuteDone
  \/ ForEachInvoke
  \/ ForEachDone
  \/ Return

SpecChain == Init /\ [][NextChain]_vars

\* ------------------------------------------------------------ jsx runtime
\* a child passed to h: a primitive, a virtual element or an array of
\* children
Arr(items) == [t |-> "array", items |-> items]

RECURSIVE flattenChildren(_), flattenEach(_)

flattenChildrenShallow(child) ==
  CASE child.t = "null" -> << >>
    [] child.t = "array" -> child.items
    [] OTHER -> << child >>

\* const flattenChildren = (child) => { ... normalizedChildren.push(..) }:
\* the entries one call pushes, in order
flattenChildren(child) ==
  CASE child.t = "null" -> << >>
    [] child.t = "array" -> flattenEach(child.items)
    [] child.t \in {"string", "number"} -> << child >>
    [] child.t \in {"element", "component"} -> << child >>
    [] child.t = "function" -> << Text(child.v) >>
    [] OTHER -> << Text("[object Object]") >>

\* children.forEach(flattenChildren)
flattenEach(children) ==
  IF Len(children) = 0 THEN << >>
  ELSE flattenChildren(Head(children)) \o flattenEach(Tail(children))

\* export function h(type, props, ...children)
h(type, props, children) == El(type, props, flattenEach(children))

\* export function Fragment(props)
Fragment(props) == h("alf-fragment", << >>, props.children)

\* the children user code passes: null / boolean, a string, an element,
\* arrays of null and strings, and an array nested twice that holds a
\* number and an element
Atoms == {Nullish, Text("a"), El("span", << >>, << >>)}
SeqsUpTo(S, n) == UNION {[1..k -> S] : k \in 0..n}
ChildItems ==
  Atoms \cup {Arr(q) : q \in SeqsUpTo({Nullish, Text("a")}, MaxLen)}
        \cup {Arr(<< Arr(<< Number, El("span", << >>, << >>) >>), Nullish >>)}
ChildLists == SeqsUpTo(ChildItems, MaxLen)

\* user code builds virtual elements
JsxCalls ==
  {Ins("h", kids, 0) : kids \in ChildLists}
    \cup {Ins("Fragment", [children |-> kids], 0) : kids \in ChildLists}

CallJsx == CallOf(JsxCalls)

\* const element = h("div", null, ...children) / Fragment({children})
HCall ==
  /\ At("h") \/ At("Fragment")
  /\ stack' = Advance(stack, Top.acc)
  /\ ev' = Event(Cur.op, Cur.x,
                 IF Cur.op = "h" THEN h("div", << >>, Cur.x) ELSE Fragment(Cur.x),
                 0)
  /\ UNCHANGED << dom, value, listeners, cvalue, isStale, clisteners, effects,
                  currentListener, listenerStack, hist >>

NextJsx ==
  \/ CallJsx
  \/ HCall
  \/ Return

\* building virtual elements involves no signal: they keep one value
InitJsx == Init /\ value = [s \in Signals |-> 0]

SpecJsx == InitJsx /\ [][NextJsx]_vars

\* ------------------------------------------------- navigation, continued
\* the module is loaded with or without a window; with one, the history
\* holds the entry of the page and currentPath starts at its pathname
InitNav ==
  /\ \E isBrowser \in BOOLEAN, pathname \in Val :
       /\ value = [s \in Signals |->
                     IF s = currentPath /\ isBrowser THEN pathname ELSE 0]
       /\ dom = [nodes |-> << Node("#text", "old") >>,
                 container |-> << 1 >>,
                 disposers |-> << >>,
                 state |-> "unmounted",
                 tree |-> "none",
                 isBrowser |-> isBrowser,
                 history |-> IF isBrowser THEN << pathname >> ELSE << >>]
  /\ listeners = [s \in Signals |-> << >>]
  /\ cvalue = [c \in Computeds |-> undefinedValue]
  /\ isStale = [c \in Computeds |-> TRUE]
  /\ clisteners = [c \in Computeds |-> << >>]
  /\ effects = << >>
  /\ currentListener = null
  /\ listenerStack = << >>
  /\ stack = << >>
  /\ ev = NoEvent
  /\ hist = [ops |-> 0,
             changes |-> [s \in Signals |-> 0],
             cruns |-> [c \in Computeds |-> 0],
             creads |-> [c \in Computeds |-> 0],
             throws |-> 0,
             since |-> [c \in Computeds |-> 0],
             prevCall |-> "none",
             curCall |-> "none",
             bt |-> [active |-> FALSE, chg |-> 0, reads |-> 0, execs |-> 0],
             childCalls |-> [s \in Signals |-> 0],
             built |-> << >>]

NavigateGuardNeverReturns ==
  /\ At("returnIfSame")
  /\ stack' = Advance(stack, Top.acc)
  /\ ev' = Event("returnIfSame", Cur.x, Top.acc, 0)
  /\ UNCHANGED << dom, value, listeners, cvalue, isStale, clisteners, effects,
                  currentListener, listenerStack, hist >>

\* if (path === currentPath()) return;
NavigateGuard ==
  /\ At("returnIfSame")
  /\ stack' = IF Cur.x = Top.acc
              THEN [stack EXCEPT ![Len(stack)].pc = Len(Code(Top)) + 1]
              ELSE Advance(stack, Top.acc)
  /\ ev' = Event("returnIfSame", Cur.x, Top.acc, 0)
  /\ UNCHANGED << dom, value, listeners, cvalue, isStale, clisteners, effects,
                  currentListener, listenerStack, hist >>

\* window.history.pushState(state, '', path) / replaceState(state, '', path)
PushState ==
  /\ At("pushState") \/ At("replaceState")
  /\ dom' = [dom EXCEPT !.history =
               IF Cur.op = "pushState" THEN Append(@, Cur.x)
               ELSE [@ EXCEPT ![Len(@)] = Cur.x]]
  /\ stack' = Advance(stack, Top.acc)
  /\ ev' = Event(Cur.op, Cur.x, 0, 0)
  /\ UNCHANGED << value, listeners, cvalue, isStale, clisteners, effects,
                  currentListener, listenerStack, hist >>

\* a page: effects that follow currentPath, one writing the other signal as
\* updateCurrentRoute does, one sending every path back to "/"; click
\* handlers that navigate
NavCalls ==
  {Ins("navigate", p, [replace |-> r]) : p \in Val, r \in BOOLEAN}
    \cup {Ins("effect", fn, 0) : fn \in
             (IF Len(effects) < MaxEffects
              THEN {"readA", "readAwriteB", "redirect"}
              ELSE {})}
CallNav == CallOf(NavCalls)

NextNav ==
  \/ CallNav
  \/ SignalRead
  \/ NavigateGuard
  \/ PushState
  \/ SignalWrite
  \/ EffectCall
  \/ ExecuteDone
  \/ ForEachInvoke
  \/ ForEachDone
  \/ CleanupDone
  \/ Return

SpecNav == InitNav /\ [][NextNav]_vars

\* -------------------------------------------------------- subscriber sets
\* a page with one more effect, whose body reads b only while a is not 1
\* (effect(() => { if (a() === 1) return; b(); })), and the dispose
\* callbacks of the effects
GrowCalls ==
  {Ins("effect", fn, 0) : fn \in
      (IF Len(effects) < MaxEffects THEN {"branch"} ELSE {})}
    \cup {Ins("dispose", e, 0) : e \in 1..Len(effects)}
CallGrow == CallOf(GrowCalls)

NextGrow ==
  \/ PageCall
  \/ RenderCall
  \/ RenderDone
  \/ CreateElement
  \/ SetAttribute
  \/ AttrEffectCall
  \/ PushDisposer
  \/ ApplyAttribute
  \/ CreateTextNode
  \/ ReturnElement
  \/ AssignDomNodes
  \/ ReturnDomNodes
  \/ DisposeAll
  \/ SignalRead
  \/ SignalWrite
  \/ ComputedRead
  \/ UpdateDone
  \/ EffectCall
  \/ ExecuteDone
  \/ ForEachInvoke
  \/ ForEachDone
  \/ Return
  \/ CallGrow
  \/ NavigateGuard
  \/ DisposeCall

SpecGrow == Init /\ [][NextGrow]_vars

\* ----------------------------------------------------------------- router
\* a segment of a route pattern: static text, ":name" or "*"
Static(s) == [k |-> "static", name |-> s]
Dynamic(n) == [k |-> "dynamic", name |-> n]
CatchAll == [k |-> "*", name |-> "*"]

\* split("/").filter(Boolean): the pieces between slashes, empty ones dropped
Boolean(seg) == seg # ""
segmentsOf(raw) == SelectSeq(raw, Boolean)

CountKind(segments, k) ==
  Cardinality({i \in 1..Len(segments) : segments[i].k = k})
getRouteSpecificity(pattern) ==
  LET segments == pattern
      staticSegments == CountKind(segments, "static")
      dynamicSegments == CountKind(segments, "dynamic")
      catchAllSegments == CountKind(segments, "*")
  IN staticSegments * 1000 + dynamicSegments * 10 + catchAllSegments * 1
       - Len(segments)

\* routes.sort((a, b) => bSpecificity - aSpecificity): Array.prototype.sort
\* is stable, so routes of equal score keep the order of the directory scan
insertRoute(sorted, r) ==
  LET k == Cardinality({i \in 1..Len(sorted) :
                 getRouteSpecificity(sorted[i]) >= getRouteSpecificity(r)})
  IN SubSeq(sorted, 1, k) \o << r >> \o SubSeq(sorted, k + 1, Len(sorted))
RECURSIVE sortRoutes(_)
sortRoutes(routes) ==
  IF Len(routes) = 0 THEN << >>
  ELSE insertRoute(sortRoutes(SubSeq(routes, 1, Len(routes) - 1)),
                   routes[Len(routes)])
\* scanRoutes(pagesDir): the routes of the page files in the order readdirSync
\* lists them, then sorted
scanRoutes(pages) == sortRoutes(pages)

\* params[key] = v on a Record<string, string>, kept as a set of pairs
Bind(params, key, v) == {p \in params : p[1] # key} \cup {<< key, v >>}
RECURSIVE join(_)
join(segs) ==
  IF Len(segs) = 0 THEN ""
  ELSE IF Len(segs) = 1 THEN segs[1]
  ELSE segs[1] \o "/" \o join(Tail(segs))

NoParams == [ok |-> FALSE, params |-> {}]
\* for (let i = 0; i < n; i++): bind a ":name" segment, compare a static one
RECURSIVE matchSegments(_, _, _, _, _)
matchSegments(pathSegments, patternSegments, n, i, params) ==
  IF i > n THEN [ok |-> TRUE, params |-> params]
  ELSE IF patternSegments[i].k = "dynamic"
       THEN matchSegments(pathSegments, patternSegments, n, i + 1,
                          Bind(params, patternSegments[i].name, pathSegments[i]))
       ELSE IF pathSegments[i] # patternSegments[i].name THEN NoParams
       ELSE matchSegments(pathSegments, patternSegments, n, i + 1, params)

\* patternSegments.findIndex(seg => seg === "*"), counted from 1; 0 is -1
findIndex(patternSegments) ==
  LET S == {i \in 1..Len(patternSegments) : patternSegments[i].k = "*"}
  IN IF S = {} THEN 0 ELSE CHOOSE i \in S : \A j \in S : i <= j

matchPatternAnyLength(path, pattern) ==
  LET pathSegments == segmentsOf(path)
      catchAllIndex == findIndex(pattern)
  IN IF catchAllIndex # 0
     THEN IF Len(pathSegments) < catchAllIndex - 1 THEN NoParams
          ELSE LET m == matchSegments(pathSegments, pattern,
                                      catchAllIndex - 1, 1, {})
               IN IF ~m.ok THEN NoParams
                  ELSE [ok |-> TRUE,
                        params |-> Bind(m.params, "slug",
                           join(SubSeq(pathSegments, catchAllIndex,
                                       Len(pathSegments))))]
     ELSE IF Len(pathSegments) < Len(pattern) THEN NoParams
     ELSE matchSegments(pathSegments, pattern, Len(pattern), 1, {})

matchPattern(path, pattern) ==
  LET pathSegments == segmentsOf(path)
      catchAllIndex == findIndex(pattern)
  IN IF catchAllIndex # 0
     THEN IF Len(pathSegments) < catchAllIndex - 1 THEN NoParams
          ELSE LET m == matchSegments(pathSegments, pattern,
                                      catchAllIndex - 1, 1, {})
               IN IF ~m.ok THEN NoParams
                  ELSE [ok |-> TRUE,
                        params |-> Bind(m.params, "slug",
                           join(SubSeq(pathSegments, catchAllIndex,
                                       Len(pathSegments))))]
     ELSE IF Len(pathSegments) # Len(pattern) THEN NoParams
     ELSE matchSegments(pathSegments, pattern, Len(pattern), 1, {})

\* parseQueryString: key=value pairs, a later key replaces an earlier one
RECURSIVE parseQueryString(_)
parseQueryString(pairs) ==
  IF Len(pairs) = 0 THEN {}
  ELSE LET pair == pairs[Len(pairs)]
           params == parseQueryString(SubSeq(pairs, 1, Len(pairs) - 1))
       IN IF pair[1] # "" THEN Bind(params, pair[1], pair[2]) ELSE params

NoRoute == [ok |-> FALSE, route |-> << >>, params |-> {}, query |-> {}]
RECURSIVE firstMatch(_, _, _, _)
firstMatch(pathname, routes, query, i) ==
  IF i > Len(routes) THEN NoRoute
  ELSE LET params == matchPattern(pathname, routes[i])
       IN IF params.ok
          THEN [ok |-> TRUE, route |-> routes[i], params |-> params.params,
                query |-> query]
          ELSE firstMatch(pathname, routes, query, i + 1)
\* a path is its pieces around "?": the pathname, cut at its slashes, and
\* what follows each "?"
matchRoute(path, routes) ==
  LET pathname == path.pathname
      queryString == IF Len(path.rest) > 0 THEN path.rest[1] ELSE << >>
      query == parseQueryString(queryString)
  IN firstMatch(pathname, routes, query, 1)

\* the pages of the tests and of the example application
Patterns ==
  { << >>, << Static("a") >>, << Static("a"), Static("b") >>,
    << Static("a"), Dynamic("id") >>, << Dynamic("id") >>,
    << Static("a"), CatchAll >>, << Static("a"), Static("b"), CatchAll >>,
    << CatchAll >>, << Dynamic("id"), CatchAll >> }
PageLists ==
  {q \in SeqsUpTo(Patterns, MaxLen) :
     \A i, j \in 1..Len(q) : i # j => q[i] # q[j]}
Pathnames == SeqsUpTo({"a", "b", ""}, MaxLen)
QueryStrings ==
  { << >>, << << << "page", "1" >>, << "slug", "x" >> >> >>,
    << << << "id", "b" >> >>, << << "a", "" >> >> >> }
Paths == {[pathname |-> p, rest |-> q] : p \in Pathnames, q \in QueryStrings}
RouterCalls ==
  {Ins("matchRoute", [path |-> p, routes |-> scanRoutes(pg), pages |-> pg], 0) :
     p \in Paths, pg \in PageLists}
CallRouter == CallOf(RouterCalls)

\* const routes = scanRoutes(pagesDir); matchRoute(path, routes)
MatchRouteCall ==
  /\ At("matchRoute")
  /\ stack' = Advance(stack, Top.acc)
  /\ ev' = Event("matchRoute", Cur.x, matchRoute(Cur.x.path, Cur.x.routes), 0)
  /\ UNCHANGED << dom, value, listeners, cvalue, isStale, clisteners, effects,
                  currentListener, listenerStack, hist >>

NextRouter == CallRouter \/ MatchRouteCall \/ Return
SpecRouter == InitJsx /\ [][NextRouter]_vars

\* ------------------------------------------------ navigation with a router
\* the paths a page navigates to: "/", "/a", "/b" and "/a?id=b"
NavPaths ==
  {[pathname |-> << >>, rest |-> << >>],
   [pathname |-> << "a" >>, rest |-> << >>],
   [pathname |-> << "b" >>, rest |-> << >>],
   [pathname |-> << "a" >>, rest |-> << << << "id", "b" >> >> >>]}
\* the route tables handed to initRouter: pages index and a, or [id] alone
RouteTables ==
  {scanRoutes(<< << Static("a") >>, << >> >>),
   scanRoutes(<< << Dynamic("id") >> >>)}

\* a MatchedRoute object: matchRoute returns a new object on every match
\* (obj is its identity) and null (obj 0) when no route matches
Matched(m, n) ==
  [ok |-> m.ok, route |-> m.route, params |-> m.params, query |-> m.query,
   obj |-> IF m.ok THEN n ELSE 0]

\* the module is loaded with or without a window: currentPath starts at
\* window.location.pathname or "/", currentRoute at null, routeDefinitions
\* empty
InitRoutes ==
  /\ \E isBrowser \in BOOLEAN, entry \in NavPaths :
       /\ value = [s \in Signals |->
                     IF s = currentRoute THEN Matched(NoRoute, 0)
                     ELSE IF isBrowser THEN pathnameOf(entry) ELSE home]
       /\ dom = [nodes |-> << Node("#text", "old") >>,
                 container |-> << 1 >>,
                 disposers |-> << >>,
                 state |-> "unmounted",
                 tree |-> "none",
                 isBrowser |-> isBrowser,
                 history |-> IF isBrowser THEN << entry >> ELSE << >>,
                 routeDefinitions |-> << >>,
                 initialized |-> FALSE,
                 popstate |-> FALSE,
                 allocs |-> 0]
  /\ listeners = [s \in Signals |-> << >>]
  /\ cvalue = [c \in Computeds |-> undefinedValue]
  /\ isStale = [c \in Computeds |-> TRUE]
  /\ clisteners = [c \in Computeds |-> << >>]
  /\ effects = << >>
  /\ currentListener = null
  /\ listenerStack = << >>
  /\ stack = << >>
  /\ ev = NoEvent
  /\ hist = [ops |-> 0,
             changes |-> [s \in Signals |-> 0],
             cruns |-> [c \in Computeds |-> 0],
             creads |-> [c \in Computeds |-> 0],
             throws |-> 0,
             since |-> [c \in Computeds |-> 0],
             prevCall |-> "none",
             curCall |-> "none",
             bt |-> [active |-> FALSE, chg |-> 0, reads |-> 0, execs |-> 0],
             childCalls |-> [s \in Signals |-> 0],
             built |-> << >>]

\* routeDefinitions = routes
SetRoutes ==
  /\ At("setRoutes")
  /\ dom' = [dom EXCEPT !.routeDefinitions = Cur.x, !.initialized = TRUE]
  /\ stack' = Advance(stack, Top.acc)
  /\ ev' = Event("setRoutes", 0, 0, 0)
  /\ UNCHANGED << value, listeners, cvalue, isStale, clisteners, effects,
                  currentListener, listenerStack, hist >>

\* window.addEventListener('popstate', handlePopState)
AddEventListener ==
  /\ At("addEventListener")
  /\ dom' = [dom EXCEPT !.popstate = TRUE]
  /\ stack' = Advance(stack, Top.acc)
  /\ ev' = Event("addEventListener", 0, 0, 0)
  /\ UNCHANGED << value, listeners, cvalue, isStale, clisteners, effects,
                  currentListener, listenerStack, hist >>

\* const matched = matchRoute(path, routeDefinitions)
MatchStep ==
  /\ At("match")
  /\ dom' = [dom EXCEPT !.allocs = @ + 1]
  /\ stack' = Advance(stack, Matched(matchRoute(Top.acc, dom.routeDefinitions),
                                     dom.allocs + 1))
  /\ ev' = Event("match", Top.acc, 0, 0)
  /\ UNCHANGED << value, listeners, cvalue, isStale, clisteners, effects,
                  currentListener, listenerStack, hist >>

\* currentRoute(matched): the signal's write with the object just matched
RouteWrite ==
  /\ At("writeRoute")
  /\ IF Changed(value[Cur.x], Top.acc)
     THEN /\ value' = Stored(Cur.x, Top.acc)
          /\ stack' = Notify(Cur.x, Advance(stack, Top.acc))
          /\ hist' = [hist EXCEPT !.changes[Cur.x] = @ + 1]
     ELSE /\ stack' = Advance(stack, Top.acc)
          /\ UNCHANGED << value, hist >>
  /\ ev' = Event("writeRoute", Cur.x, 0, 0)
  /\ UNCHANGED << dom, listeners, cvalue, isStale, clisteners, effects,
                  currentListener, listenerStack >>

\* if (currentRoute()) return;
RouteGuard ==
  /\ At("returnIfRoute")
  /\ stack' = IF Top.acc.ok
              THEN [stack EXCEPT ![Len(stack)].pc = Len(Code(Top)) + 1]
              ELSE Advance(stack, Top.acc)
  /\ ev' = Event("returnIfRoute", 0, 0, 0)
  /\ UNCHANGED << dom, value, listeners, cvalue, isStale, clisteners, effects,
                  currentListener, listenerStack, hist >>

\* a page: initRouter, the not-found redirect, navigate calls from click
\* handlers, and the popstate events of the browser's back and forward
\* buttons, which move to an entry of the history
RouteCalls ==
  {Ins("navigate", p, [replace |-> r]) : p \in NavPaths, r \in BOOLEAN}
    \cup {Ins("initRouter", r, 0) : r \in
             (IF Len(effects) < MaxEffects THEN RouteTables ELSE {})}
    \cup {Ins("effect", fn, 0) : fn \in
             (IF Len(effects) < MaxEffects THEN {"notFound"} ELSE {})}
    \cup {Ins("popstate", p, 0) : p \in
             (IF dom.popstate THEN Range(dom.history) ELSE {})}
CallRoutes == CallOf(RouteCalls)

NextRoutes ==
  \/ CallRoutes
  \/ SetRoutes
  \/ AddEventListener
  \/ MatchStep
  \/ RouteWrite
  \/ RouteGuard
  \/ SignalRead
  \/ NavigateGuard
  \/ PushState
  \/ SignalWrite
  \/ EffectCall
  \/ ExecuteDone
  \/ ForEachInvoke
  \/ ForEachDone
  \/ Return

SpecRoutes == InitRoutes /\ [][NextRoutes]_vars

\* ------------------------------------------------- jsx: function children
ChildCallPeeks ==
  /\ At("callChild")
  /\ listeners' = listeners
  /\ stack' = Advance(stack, value[Cur.x])
  /\ hist' = [hist EXCEPT !.childCalls[Cur.x] = @ + 1]
  /\ ev' = Event("read", Cur.x, value[Cur.x], 0)
  /\ UNCHANGED << dom, value, cvalue, isStale, clisteners, effects,
                  currentListener, listenerStack >>

\* flattenChildren: child() -- the child is a signal, the call is its read
ChildCall ==
  /\ At("callChild")
  /\ listeners' = [listeners EXCEPT ![Cur.x] = Subscribe(@)]
  /\ stack' = Advance(stack, value[Cur.x])
  /\ hist' = [hist EXCEPT !.childCalls[Cur.x] = @ + 1]
  /\ ev' = Event("read", Cur.x, value[Cur.x], 0)
  /\ UNCHANGED << dom, value, cvalue, isStale, clisteners, effects,
                  currentListener, listenerStack >>

\* String(v) of a signal's value
StringOfValue(v) == IF v = undefinedValue THEN "undefined" ELSE ToString(v)

\* normalizedChildren.push(String(child()))
PushString ==
  /\ At("pushString")
  /\ stack' = Advance([stack EXCEPT ![Len(stack)].out =
                          Append(@, Text(StringOfValue(Top.acc)))], Top.acc)
  /\ ev' = Event("push", 0, 0, 0)
  /\ UNCHANGED << dom, value, listeners, cvalue, isStale, clisteners, effects,
                  currentListener, listenerStack, hist >>

\* normalizedChildren.push(child)
PushChild ==
  /\ At("pushChild")
  /\ stack' = Advance([stack EXCEPT ![Len(stack)].out = Append(@, Cur.x)],
                      Top.acc)
  /\ ev' = Event("push", 0, 0, 0)
  /\ UNCHANGED << dom, value, listeners, cvalue, isStale, clisteners, effects,
                  currentListener, listenerStack, hist >>

\* return { type, props: normalizedProps, children: normalizedChildren }:
\* the caller keeps the element (with, for the record, the children it
\* passed, the computation that was running and the values of the signals)
HReturn ==
  /\ At("hReturn")
  /\ hist' = [hist EXCEPT !.built =
        Append(@, [el |-> El(Cur.x, << >>, Top.out), src |-> Cur.v,
                   by |-> currentListener, vals |-> value])]
  /\ stack' = Advance([stack EXCEPT ![Len(stack)].out = << >>], Top.acc)
  /\ ev' = Event("h", 0, 0, 0)
  /\ UNCHANGED << dom, value, listeners, cvalue, isStale, clisteners, effects,
                  currentListener, listenerStack >>

\* user code: writes, the label effect, and elements built outside any
\* computation with signals among the children, also inside arrays
BuildLists ==
  { << Fn(a) >>,
    << Fn(a), Text("x"), Fn(b) >>,
    << Arr(<< Fn(b), Nullish >>), Fn(b) >> }
ChildCalls ==
  {Ins("write", s, v) : s \in Signals, v \in Val}
    \cup {Ins("effect", fn, 0) : fn \in
             (IF Len(effects) < MaxEffects THEN {"label"} ELSE {})}
    \cup {Ins("build", "div", kids) : kids \in BuildLists}
CallChild == CallOf(ChildCalls)

NextChild ==
  \/ CallChild
  \/ ChildCall
  \/ PushString
  \/ PushChild
  \/ HReturn
  \/ SignalWrite
  \/ EffectCall
  \/ ExecuteDone
  \/ ForEachInvoke
  \/ ForEachDone
  \/ Return

SpecChild == Init /\ [][NextChild]_vars

\* ------------------------------------------------------ element attributes
\* domElement.addEventListener(eventName, value)
AttachListener ==
  /\ At("addListener")
  /\ dom' = [dom EXCEPT !.nodes[TopEl(Top)].events =
               Append(@, [name |-> Cur.x, handler |-> Cur.v])]
  /\ stack' = Advance(stack, Top.acc)
  /\ ev' = Event("addEventListener", TopEl(Top), 0, 0)
  /\ UNCHANGED << value, listeners, cvalue, isStale, clisteners, effects,
                  currentListener, listenerStack, hist >>

\* value(domElement): a plain function receives the node; a signal called
\* with an argument is its write, so the node becomes the signal's value
RefCall ==
  /\ At("ref")
  /\ dom' = [dom EXCEPT !.nodes[TopEl(Top)].refs = Append(@, Cur.v)]
  /\ IF Cur.v.kind = "signal" /\ Changed(value[Cur.v.v], TopEl(Top))
     THEN /\ value' = Stored(Cur.v.v, TopEl(Top))
          /\ stack' = Notify(Cur.v.v, Advance(stack, Top.acc))
          /\ hist' = [hist EXCEPT !.changes[Cur.v.v] = @ + 1]
     ELSE /\ stack' = Advance(stack, Top.acc)
          /\ UNCHANGED << value, hist >>
  /\ ev' = Event("ref", TopEl(Top), 0, 0)
  /\ UNCHANGED << listeners, cvalue, isStale, clisteners, effects,
                  currentListener, listenerStack >>

\* a page that renders one of the forms, writes the signals and disposes
AttrCalls ==
  {Ins("write", s, v) : s \in Signals, v \in Val}
    \cup {Ins("render", t, 0) : t \in
             (IF dom.state = "unmounted" THEN DOMAIN Forms ELSE {})}
    \cup {Ins("disposeAll", 0, 0) : x \in
             (IF dom.state = "mounted" THEN {0} ELSE {})}
CallAttrs == CallOf(AttrCalls)

NextAttrs ==
  \/ CallAttrs
  \/ RenderCall
  \/ RenderDone
  \/ CreateElement
  \/ AttachListener
  \/ RefCall
  \/ AttrEffectCall
  \/ PushDisposer
  \/ SetAttribute
  \/ ApplyAttribute
  \/ CreateTextNode
  \/ ReturnElement
  \/ DisposeAll
  \/ SignalRead
  \/ SignalWrite
  \/ ComputedRead
  \/ UpdateDone
  \/ ExecuteDone
  \/ ForEachInvoke
  \/ ForEachDone
  \/ Return

SpecAttrs == Init /\ [][NextAttrs]_vars

\* -------------------------------------------------------- client hydration
\* what the app element shows after render(h(Component, params), appElement),
\* render404(pathname) or renderError(pathname, error)
Page(kind, route, params, path) ==
  [kind |-> kind, route |-> route, params |-> params, path |-> path]
\* the page loaded in the browser, before the client module runs: the
\* server's HTML of the initial route is in the app element, the history
\* holds the entry of the page
InitClient ==
  /\ \E hotReload \in BOOLEAN, entry \in NavPaths :
       dom = [routes |-> scanRoutes(<< << Static("a") >>, << >> >>),
              hotReload |-> hotReload,
              initialized |-> FALSE,
              unloaded |-> FALSE,
              hmr |-> FALSE,
              sockets |-> << >>,
              timers |-> 0,
              history |-> << pathnameOf(entry) >>,
              at |-> 1,
              title |-> << >>,
              app |-> Page("server", << >>, {}, pathnameOf(entry)),
              pending |-> << >>,
              last |-> pathnameOf(entry),
              started |-> 0]
  /\ value = [s \in Signals |-> 0]
  /\ listeners = [s \in Signals |-> << >>]
  /\ cvalue = [c \in Computeds |-> undefinedValue]
  /\ isStale = [c \in Computeds |-> TRUE]
  /\ clisteners = [c \in Computeds |-> << >>]
  /\ effects = << >>
  /\ currentListener = null
  /\ listenerStack = << >>
  /\ stack = << >>
  /\ ev = NoEvent
  /\ hist = [ops |-> 0,
             changes |-> [s \in Signals |-> 0],
             cruns |-> [c \in Computeds |-> 0],
             creads |-> [c \in Computeds |-> 0],
             throws |-> 0,
             since |-> [c \in Computeds |-> 0],
             prevCall |-> "none",
             curCall |-> "none",
             bt |-> [active |-> FALSE, chg |-> 0, reads |-> 0, execs |-> 0],
             childCalls |-> [s \in Signals |-> 0],
             built |-> << >>]

ClientStep(d, op) ==
  /\ dom' = d
  /\ ev' = Event(op, 0, 0, 0)
  /\ UNCHANGED << value, listeners, cvalue, isStale, clisteners, effects,
                  currentListener, listenerStack, stack, hist >>

\* function setupHotReload(): if (window.__alfHMR) return;
\* window.__alfHMR = true; const ws = new WebSocket(wsUrl)
setupHotReload(d) ==
  IF d.hmr THEN d
  ELSE [d EXCEPT !.hmr = TRUE, !.sockets = Append(@, "connecting")]

\* the start of a component load: await this.loadComponent(filePath)
Load(d, m, pathname) ==
  [d EXCEPT !.pending = Append(@, [route |-> m.route, params |-> m.params,
                                   path |-> pathname])]

\* handleNavigation(pathname, isPushNavigation) up to its await: render404
\* when no route matches, else set the title and start the load
handleNavigation(d, pathname) ==
  LET matchedRoute == matchRoute(pathname, d.routes)
      n == [d EXCEPT !.last = pathname, !.started = @ + 1]
  IN IF ~matchedRoute.ok
     THEN [n EXCEPT !.app = Page("404", << >>, {}, pathname)]
     ELSE Load([n EXCEPT !.title = matchedRoute.route], matchedRoute, pathname)

\* initializeClient(): the double-initialization guard, setupHotReload() if
\* enabled, new ClientRouter (listeners), hydrateInitialRoute(initialRoute)
\* up to its await
initializeClient ==
  /\ ~dom.unloaded /\ ~dom.initialized
  /\ LET d == [dom EXCEPT !.initialized = TRUE]
         h0 == IF dom.hotReload THEN setupHotReload(d) ELSE d
         initialRoute == matchRoute(dom.history[1], dom.routes)
     IN ClientStep(IF initialRoute.ok
                   THEN Load(h0, initialRoute, dom.history[1])
                   ELSE h0, "initializeClient")

\* public navigate(path): history.pushState({}, '', path);
\* this.handleNavigation(path, true) -- from a link click or a call
ClientNavigate ==
  /\ ~dom.unloaded /\ dom.initialized /\ dom.started < MaxOps
  /\ \E path \in NavPaths :
       ClientStep(handleNavigation(
           [dom EXCEPT !.history = Append(SubSeq(@, 1, dom.at), path),
                       !.at = @ + 1], path), "navigate")

\* the popstate listener, after the browser moved to another history entry:
\* this.handleNavigation(window.location.pathname, false)
ClientPopState ==
  /\ ~dom.unloaded /\ dom.initialized /\ dom.started < MaxOps
  /\ \E j \in 1..Len(dom.history) :
       /\ j # dom.at
       /\ ClientStep(handleNavigation([dom EXCEPT !.at = j],
                                      pathnameOf(dom.history[j])), "popstate")

Without(q, i) == SubSeq(q, 1, i - 1) \o SubSeq(q, i + 1, Len(q))

\* an import() resolves, in any order: the rest of handleNavigation (or of
\* hydrateInitialRoute) runs render(h(Component, params), this.appElement)
LoadResolves ==
  /\ ~dom.unloaded
  /\ \E i \in 1..Len(dom.pending) :
       ClientStep([dom EXCEPT
           !.pending = Without(@, i),
           !.app = Page("page", dom.pending[i].route, dom.pending[i].params,
                        dom.pending[i].path)], "rendered")

\* an import() rejects: catch (error) { this.renderError(pathname, error) }
LoadRejects ==
  /\ ~dom.unloaded
  /\ \E i \in 1..Len(dom.pending) :
       ClientStep([dom EXCEPT
           !.pending = Without(@, i),
           !.app = Page("error", << >>, {}, dom.pending[i].path)], "renderError")

\* ws.onopen
WsOpen ==
  /\ ~dom.unloaded
  /\ \E i \in 1..Len(dom.sockets) :
       /\ dom.sockets[i] = "connecting"
       /\ ClientStep([dom EXCEPT !.sockets[i] = "open"], "open")

\* the connection fails or is closed by the server: ws.onclose =
\* () => { setTimeout(setupHotReload, 1000) }
WsClose ==
  /\ ~dom.unloaded
  /\ \E i \in 1..Len(dom.sockets) :
       /\ dom.sockets[i] \in {"connecting", "open"}
       /\ ClientStep([dom EXCEPT !.sockets[i] = "closed", !.timers = @ + 1],
                     "close")

\* ws.onmessage: if (event.data === 'reload') window.location.reload()
\* -- the page and its connections are gone
WsReload ==
  /\ ~dom.unloaded
  /\ \E i \in 1..Len(dom.sockets) :
       /\ dom.sockets[i] = "open"
       /\ ClientStep([dom EXCEPT !.unloaded = TRUE,
                                 !.sockets[i] = "unloaded",
                                 !.pending = << >>, !.timers = 0], "reload")

\* the timer of onclose fires: setupHotReload()
ReconnectTimer ==
  /\ ~dom.unloaded /\ dom.timers > 0
  /\ ClientStep(setupHotReload([dom EXCEPT !.timers = @ - 1]), "timer")

NextClient ==
  \/ initializeClient
  \/ ClientNavigate
  \/ ClientPopState
  \/ LoadResolves
  \/ LoadRejects
  \/ WsOpen
  \/ WsClose
  \/ WsReload
  \/ ReconnectTimer

\* timers fire and imports settle
SpecClient ==
  /\ InitClient /\ [][NextClient]_vars
  /\ WF_vars(ReconnectTimer)
  /\ WF_vars(LoadResolves \/ LoadRejects)
  /\ WF_vars(initializeClient)

\* ------------------------------------------------------------ properties
Effs == 1..Len(effects)
\* value-changing writes to s since effect e was created
ChangesSince(e, s) == hist.changes[s] - effects[e].born[s]
\* the body of sum over the current signal values
SumNow == value[a] + value[b]
\* The tracking context the call stack stk calls for: the innermost
\* function on it that sets currentListener is a batch (none), an effect's
\* execute or a computed's update (that computation); none if there is no
\* such function
Setters(stk) ==
  {i \in 1..Len(stk) : stk[i].k \in {"execute", "update", "batch"}}
ListenerOf(f) ==
  CASE f.k = "execute" -> Listener("e", f.id)
    [] f.k = "update" -> Listener("c", f.id)
    [] OTHER -> null
ContextOf(stk) ==
  IF Setters(stk) = {} THEN null
  ELSE ListenerOf(stk[CHOOSE i \in Setters(stk) : \A j \in Setters(stk) : j <= i])
\* the computations being evaluated on stk, outermost first
Evaluating(stk) ==
  LET fs == SelectSeq(stk, LAMBDA f : f.k \in {"execute", "update"})
  IN [i \in 1..Len(fs) |-> ListenerOf(fs[i])]

\* C1: once an effect's dispose callback has been invoked, its body is
\* never executed again.
C1_DisposedNeverReruns ==
  [][\A e \in Effs : effects[e].disposed => effects'[e].runs = effects[e].runs]_vars

\* C2: once the disposer returned by render() has been called, no write to
\* a signal sets or removes an attribute of any DOM node.
C2_DisposedRenderLeavesDomAlone ==
  [][dom.state = "disposed" =>
       \A n \in NodeIds : dom'.nodes[n].attrs = dom.nodes[n].attrs]_vars

\* C3: after a value-changing write to a signal read by a component body,
\* the container holds, in place of the previously mounted nodes, the nodes
\* of the latest run of the component, which show the new value.
C3_ComponentRerenderReplacesNodes ==
  (~Running /\ dom.state = "mounted" /\ dom.tree = "counter") =>
    /\ \E e \in Effs : effects[e].fn = "Counter"
                        /\ dom.container = effects[e].domNodes
    /\ Len(dom.container) = 1
    /\ LET div == dom.nodes[dom.container[1]]
       IN /\ div.tag = "div"
          /\ Len(div.children) = 1
          /\ dom.nodes[div.children[1]].text = ToString(value[a])

\* C4: a write of a value strictly equal to the current one invokes no
\* subscriber and leaves the value and every subscriber set unchanged,
\* whatever the tracking context.
C4_SameValueWriteIsNoop ==
  [][(At("write") /\ Cur.v = value[Cur.x]) =>
       /\ value' = value
       /\ listeners' = listeners
       /\ clisteners' = clisteners
       /\ isStale' = isStale
       /\ effects' = effects
       /\ currentListener' = currentListener
       /\ Len(stack') = Len(stack)]_vars

C4_Witness ==
  /\ ev.op = "write" /\ ev.v = ev.n
  /\ listeners[ev.x] # << >>
  /\ currentListener # null

\* C5: a value-changing write stores the new value before any subscriber
\* is invoked, and when write() returns forEach has invoked every listener
\* of the signal's subscriber set.
C5_StoreThenNotifyAll ==
  /\ (ev.op = "write" /\ ev.v # ev.n) =>
        /\ value[ev.x] = ev.v
        /\ Top.k = "forEachS" /\ Top.id = ev.x /\ Top.acc = 0
  /\ ev.op = "writeRet" => ev.n = Len(listeners[ev.x])

C5_Witness ==
  ev.op = "writeRet" /\ ev.n = 2 /\ Len(stack) > 1

\* C6: an effect whose body reads one signal and writes nothing has run
\* once at creation and once more per later value-changing write to that
\* signal: n + 1 runs after n writes.
C6_RunsOncePerChange ==
  ~Running =>
    \A e \in Effs :
      effects[e].fn = "readA" => effects[e].runs = ChangesSince(e, a) + 1

C6_Witness ==
  ~Running /\ \E e \in Effs : effects[e].fn = "readA" /\ effects[e].runs = 3

\* C7: the first read() of a computed after a value-changing write to one
\* of the signals its body reads returns the body's value over the new
\* signal values, and the body is executed at most once between two
\* consecutive value-changing writes.
C7_ReadIsFreshAndCached ==
  /\ (ev.op = "readcRet" /\ \E s \in Signals : hist.changes[s] > 0) =>
        ev.v = SumNow
  /\ \A c \in Computeds : hist.since[c] <= 1

\* C8: two signals of one computed written with changed values in one
\* batch, the computed not read while the batch runs: the read after the
\* batch executes the body exactly once and returns the value over both
\* new values.
C8_BatchThenReadComputesOnce ==
  (/\ ev.op = "readcRet" /\ ev.n = 1
   /\ hist.prevCall = "batch"
   /\ hist.bt.chg = 2 /\ hist.bt.reads = 0) =>
     hist.bt.execs = 1 /\ ev.v = SumNow

C8_Witness ==
  /\ ev.op = "readcRet" /\ ev.n = 1
  /\ hist.prevCall = "batch"
  /\ hist.bt.chg = 2 /\ hist.bt.reads = 0
  /\ hist.cruns[sum] = 2

\* C9: an effect that depends through a computed on two signals runs only
\* once for a batch that writes both with changed values.
C9_EffectRunsOncePerBatch ==
  (ev.op = "batchRet" /\ hist.bt.chg = 2) =>
    \A e \in Effs :
      effects[e].fn = "logSum" => effects[e].runs - effects[e].mark = 1

C11_BatchReadsUntracked ==
  /\ [][(InBody /\ Top.k = "batch" /\ Len(stack) > 2 /\ ~AtEnd
           /\ Cur.op \in {"read", "readc"}) =>
          /\ listeners' = listeners
          /\ clisteners' = clisteners]_vars
  /\ [](ev.op \in {"batchRet", "batchThrown"} =>
          /\ currentListener = ContextOf(stack)
          /\ listenerStack = Evaluating(stack))

C11_Witness ==
  /\ ev.op = "batchThrown"
  /\ currentListener = Listener("e", 1)
  /\ effects[1].fn = "shield"
  /\ listeners[b] = << Listener("c", sum) >>
  /\ clisteners[sum] = << >>

\* C12: the cleanup returned by a run of an effect is invoked at most
\* once, and it has been invoked once the body has begun a later run.
C12_CleanupExactlyOnce ==
  \A e \in Effs :
    \A r \in 1..Len(effects[e].calls) :
      /\ effects[e].calls[r] <= 1
      /\ r < effects[e].runs => effects[e].calls[r] = 1

\* C13: the body of an effect is never on the call stack twice, every call
\* made by user code (a signal write in particular) returns, and an effect
\* that increments the signal it reads has run once at creation and once
\* per value-changing write made to that signal while it was not running.
C13_NoReentryAndTermination ==
  /\ [](\A i, j \in 1..Len(stack) :
          (i < j /\ stack[i].k = "execute" /\ stack[j].k = "execute")
             => stack[i].id # stack[j].id)
  /\ [](~Running =>
          \A e \in Effs :
            effects[e].fn = "incA" => effects[e].runs = 1 + effects[e].ext[a])
  /\ (Running ~> ~Running)

C13_Witness ==
  /\ ev.op = "invoke"
  /\ Top.k = "forEachS"
  /\ effects[ev.x].fn = "incA" /\ effects[ev.x].isRunning
  /\ \E i \in 1..Len(stack) : stack[i].k = "execute" /\ stack[i].id = ev.x
  /\ effects[ev.x].runs = 2

\* C14: when an exception thrown by the body of a computed or an effect
\* leaves the evaluation, the tracking context and the context stack are
\* those of the computations still being evaluated and the effect is no
\* longer marked running; after a throw a signal read at top level
\* subscribes nobody and a read in a computation's body subscribes exactly
\* that computation.
C14_ThrowRestoresContext ==
  /\ [](ev.op \in {"executeThrown", "updateThrown"} =>
          /\ currentListener = ContextOf(stack)
          /\ listenerStack = Evaluating(stack)
          /\ ev.op = "executeThrown" => ~effects[ev.x].isRunning)
  /\ [][(hist.throws > 0 /\ At("read") /\ ev'.op = "read") =>
          listeners' = [listeners EXCEPT ![Cur.x] =
             IF Top.k \in {"execute", "update"}
             THEN SetAdd(@, ListenerOf(Top)) ELSE @]]_vars

C14_Witness ==
  /\ ev.op = "updateThrown"
  /\ Len(stack) > 2
  /\ currentListener = Listener("e", 1)
  /\ listenerStack = << Listener("e", 1) >>
  /\ effects[1].isRunning

\* the signals (op "read") / computeds (op "readc") that the statements of
\* program fn read themselves
DirectReads(fn, op) ==
  {Programs[fn][i].x :
     i \in {j \in 1..Len(Programs[fn]) : Programs[fn][j].op = op}}
\* the signals / computeds whose subscriber set holds listener l
SignalsOf(l) == {s \in Signals : l \in Range(listeners[s])}
ComputedsOf(l) == {c \in Computeds : l \in Range(clisteners[c])}

\* C15: with nested evaluation every read subscribes the innermost
\* computation being evaluated and nothing else: an effect that reads a,
\* creates an inner effect reading b and then reads sum is a subscriber of
\* a and of sum only, the inner effect is a subscriber of b only as soon as
\* its creation has returned, and sum is a subscriber of a and b only.
C15_EdgesPointToInnermost ==
  /\ [][(At("read") /\ ContextOf(stack) # null) =>
          listeners' = [listeners EXCEPT ![Cur.x] =
                          SetAdd(@, ContextOf(stack))]]_vars
  /\ [][(At("readc") /\ ev'.op = "readcRet" /\ ContextOf(stack) # null) =>
          clisteners' = [clisteners EXCEPT ![Cur.x] =
                           SetAdd(@, ContextOf(stack))]]_vars
  /\ [](\A e \in Effs :
          (effects[e].fn \in {"nest", "readB"} /\ ~effects[e].isRunning) =>
             /\ SignalsOf(Listener("e", e)) = DirectReads(effects[e].fn, "read")
             /\ ComputedsOf(Listener("e", e)) =
                  DirectReads(effects[e].fn, "readc"))
  /\ [](/\ SignalsOf(Listener("c", sum)) \subseteq DirectReads("sumFn", "read")
        /\ ComputedsOf(Listener("c", sum)) = {})

C15_Witness ==
  /\ ev.op = "executeRet"
  /\ effects[ev.x].fn = "readB"
  /\ Len(stack) > 1
  /\ stack[Len(stack)].k = "execute" /\ stack[Len(stack)].fn = "nest"
  /\ currentListener = Listener("e", stack[Len(stack)].id)
  /\ listeners[b] = << Listener("e", ev.x) >>

\* C16: peek() of a signal or of a computed adds nobody to that signal's
\* or computed's subscriber set whatever the context, a signal read() made
\* while no computation is being evaluated changes no subscriber set, and
\* peek() of a stale computed executes the body and returns its value over
\* the current signal values.
C16_PeekDoesNotSubscribe ==
  /\ [][(At("peek") \/ At("peekc")) =>
          /\ listeners' = listeners
          /\ clisteners' = clisteners]_vars
  /\ [][(At("read") /\ Setters(stack) = {}) =>
          /\ listeners' = listeners
          /\ clisteners' = clisteners]_vars
  /\ [][(At("peekc") /\ ~Top.w /\ isStale[Cur.x]) =>
          /\ Len(stack') = Len(stack) + 1
          /\ stack'[Len(stack')].k = "update"
          /\ stack'[Len(stack')].id = Cur.x]_vars
  /\ [](ev.op = "peekcRet" =>
          /\ ~isStale[ev.x]
          /\ ev.v = cvalue[ev.x]
          /\ ev.n = 1 => ev.v = SumNow)
  /\ [](\A e \in Effs :
          (effects[e].fn = "peeker" /\ ~effects[e].isRunning) =>
             /\ SignalsOf(Listener("e", e)) = {b}
             /\ ComputedsOf(Listener("e", e)) = {})

C16_Witness ==
  /\ ev.op = "peekcRet" /\ ev.n = 1
  /\ currentListener.k = "e"
  /\ effects[currentListener.id].fn = "peeker"
  /\ effects[currentListener.id].runs = 2
  /\ listeners[a] # << >>

\* C17: the body of a computed executes only inside a read() or peek() of
\* that computed that found it stale: not at construction, and not when a
\* write notifies it (the notification sets the flag and notifies the
\* computed's own subscribers); a computed that was never read has never
\* executed.
C17_ComputedIsLazy ==
  /\ [](\A i \in 1..Len(stack) :
          stack[i].k = "update" =>
            /\ i > 1
            /\ stack[i - 1].w
            /\ Code(stack[i - 1])[stack[i - 1].pc].op \in {"readc", "peekc"}
            /\ Code(stack[i - 1])[stack[i - 1].pc].x = stack[i].id)
  /\ [][\A c \in Computeds :
          (\E i \in 1..Len(stack') : /\ stack'[i].k = "update"
                                     /\ stack'[i].id = c
                                     /\ i > Len(stack))
             => ((At("readc") \/ At("peekc")) /\ Cur.x = c /\ isStale[c])]_vars
  /\ [][\A c \in Computeds :
          (ev'.op = "invoke" /\ Top.k \in {"forEachS", "forEachC"}
             /\ ListenersOf(Top)[Top.pc] = Listener("c", c)) =>
            /\ isStale'[c]
            /\ cvalue' = cvalue
            /\ stack'[Len(stack')].k = "forEachC"
            /\ stack'[Len(stack')].id = c]_vars
  /\ [](\A c \in Computeds :
          hist.creads[c] = 0 =>
            /\ hist.cruns[c] = 0
            /\ cvalue[c] = undefinedValue
            /\ isStale[c])

C17_Witness ==
  /\ ev.op = "notifyRet" /\ ev.x = sum
  /\ hist.creads[sum] = 1 /\ hist.cruns[sum] = 1
  /\ hist.changes[a] + hist.changes[b] = 2
  /\ isStale[sum]

\* C18: no subscriber set holds a listener twice, and an effect that reads
\* the same signal (or the same computed) twice in every run has run once
\* at creation and once per value-changing write to that signal (to a
\* signal of that computed).
C18_ListenerStoredOnce ==
  /\ \A s \in Signals : Cardinality(Range(listeners[s])) = Len(listeners[s])
  /\ \A c \in Computeds : Cardinality(Range(clisteners[c])) = Len(clisteners[c])
  /\ ~Running =>
       \A e \in Effs :
         /\ effects[e].fn = "readTwice" =>
              effects[e].runs = ChangesSince(e, a) + 1
         /\ effects[e].fn = "sumTwice" =>
              effects[e].runs = ChangesSince(e, a) + ChangesSince(e, b) + 1

C18_Witness ==
  /\ ~Running
  /\ \E e \in Effs : effects[e].fn = "readTwice" /\ effects[e].runs = 3
                       /\ listeners[a] = << Listener("e", e) >>

\* C19: once the disposer returned by render() has run the subtree stays
\* disposed: no component function of that render is invoked again and
\* the render's disposer list stays empty.
C19_DisposedIsTerminal ==
  [][dom.state = "disposed" =>
       /\ dom'.state = "disposed"
       /\ dom'.disposers = << >>
       /\ \A e \in Effs :
            effects[e].fn \in DOMAIN Components =>
              effects'[e].runs = effects[e].runs]_vars

\* C20: while a render is mounted and no call is in progress, every
\* attribute bound to a signal or computed is absent from its element when
\* the current value is null or undefined and is the string of the current
\* value otherwise.
C20_AttributeFollowsValue ==
  (~Running /\ dom.state = "mounted") =>
    \A e \in Effs :
      effects[e].fn = "updateAttribute" =>
        LET src == effects[e].src
            now == IF src.kind = "computed"
                   THEN ToNumber(value[a]) + ToNumber(value[b])
                   ELSE value[src.v]
            attr == dom.nodes[effects[e].el].attrs[effects[e].key]
        IN IF now = undefinedValue THEN attr = Absent
           ELSE attr = ToString(now)

C20_Witness ==
  /\ ~Running /\ dom.state = "mounted"
  /\ value[b] = undefinedValue
  /\ \E e \in Effs :
       /\ effects[e].fn = "updateAttribute"
       /\ effects[e].src.kind = "signal" /\ effects[e].src.v = b
       /\ effects[e].runs = 3
       /\ dom.nodes[effects[e].el].attrs[effects[e].key] = Absent

\* the nodes of the document that are no element's child, in the order of
\* their creation
Children == UNION {Range(dom.nodes[n].children) : n \in NodeIds}
RECURSIVE Ascending(_)
Ascending(S) ==
  IF S = {} THEN << >>
  ELSE LET m == CHOOSE x \in S : \A y \in S : x <= y
       IN << m >> \o Ascending(S \ {m})
\* how many text nodes / element nodes a virtual node stands for
RECURSIVE TextCount(_), ElementCount(_), CountAll(_, _)
CountAll(kind, q) ==
  IF Len(q) = 0 THEN 0
  ELSE (IF kind = "text" THEN TextCount(Head(q)) ELSE ElementCount(Head(q)))
         + CountAll(kind, Tail(q))
TextCount(node) ==
  CASE node.t \in {"string", "number"} -> 1
    [] node.t = "element" -> CountAll("text", node.children)
    [] node.t = "component" -> TextCount(Components[node.fn].rendered)
    [] OTHER -> 0
ElementCount(node) ==
  CASE node.t = "element" ->
         (IF node.type = "alf-fragment" THEN 0 ELSE 1)
           + CountAll("element", node.children)
    [] node.t = "component" -> ElementCount(Components[node.fn].rendered)
    [] OTHER -> 0

\* C21: when render() returns the container holds exactly the top-level
\* nodes created for the element, in order, and none of the nodes it held
\* before; for h("div", {id: "test"}, "Hello World") that is one div with
\* id "test" and one text child.
C21_RenderReplacesContainer ==
  ev.op = "renderRet" =>
    /\ dom.container = Ascending((NodeIds \ {1}) \ Children)
    /\ dom.tree = "hello" =>
         /\ Len(dom.container) = 1
         /\ LET div == dom.nodes[dom.container[1]]
            IN /\ div.tag = "div"
               /\ div.attrs["id"] = "test"
               /\ Len(div.children) = 1
               /\ dom.nodes[div.children[1]].tag = "#text"
               /\ dom.nodes[div.children[1]].text = "Hello World"

C21_Witness ==
  /\ ev.op = "renderRet" /\ dom.tree = "hello"
  /\ dom.container = << 2 >>
  /\ hist.ops = 2

\* C22: a string or number child becomes one text node, a null, undefined
\* or boolean child none, and a fragment the nodes of its children in
\* order with no element of its own: a fragment of the strings x and y
\* (and a null) renders as exactly the two sibling text nodes x, y.
C22_PrimitivesAndFragments ==
  ev.op = "renderRet" =>
    /\ Cardinality({n \in NodeIds \ {1} : dom.nodes[n].tag = "#text"})
         = TextCount(Trees[dom.tree])
    /\ Cardinality({n \in NodeIds : dom.nodes[n].tag # "#text"})
         = ElementCount(Trees[dom.tree])
    /\ dom.tree = "frag" =>
         /\ Len(dom.container) = 2
         /\ dom.nodes[dom.container[1]] = Node("#text", "x")
         /\ dom.nodes[dom.container[2]] = Node("#text", "y")

C22_Witness ==
  /\ ev.op = "renderRet" /\ dom.tree = "frag"
  /\ Len(dom.nodes) = 3

\* every entry of a list of children with the arrays opened up, at any
\* depth and in order, nothing dropped
RECURSIVE Leaves(_)
Leaves(children) ==
  IF Len(children) = 0 THEN << >>
  ELSE (IF Head(children).t = "array" THEN Leaves(Head(children).items)
        ELSE << Head(children) >>) \o Leaves(Tail(children))
IsKept(child) == child.t # "null"

\* C23: the children of the element h returns are the arguments with the
\* arrays opened up depth-first in order, the null, undefined and boolean
\* entries dropped and the strings, numbers and elements unchanged;
\* Fragment returns the same children under the tag alf-fragment.
C23_ChildrenAreFlattened ==
  /\ ev.op = "h" =>
       /\ ev.v.type = "div"
       /\ ev.v.children = SelectSeq(Leaves(ev.x), IsKept)
  /\ ev.op = "Fragment" =>
       /\ ev.v.type = "alf-fragment"
       /\ ev.v.children = SelectSeq(Leaves(ev.x.children), IsKept)

C23_Witness ==
  /\ ev.op = "h"
  /\ ev.x = << Arr(<< Nullish, Text("a") >>),
               Arr(<< Arr(<< Number, El("span", << >>, << >>) >>), Nullish >>) >>
  /\ ev.v.children = << Text("a"), Number, El("span", << >>, << >>) >>

\* what the router's documentation says of a pattern and a path, stated
\* without the matching loop
IsStaticOnly(pattern) == \A i \in 1..Len(pattern) : pattern[i].k = "static"
HasCatchAll(pattern) == \E i \in 1..Len(pattern) : pattern[i].k = "*"
Leading(pattern) ==
  LET n == CHOOSE n \in 0..Len(pattern) :
             /\ \A i \in 1..n : pattern[i].k # "*"
             /\ n < Len(pattern) => pattern[n + 1].k = "*"
  IN SubSeq(pattern, 1, n)
SegmentsAgree(segs, pat) ==
  \A i \in 1..Len(pat) : pat[i].k = "static" => segs[i] = pat[i].name
PatternMatches(segs, pattern) ==
  IF HasCatchAll(pattern)
  THEN Len(segs) >= Len(Leading(pattern)) /\ SegmentsAgree(segs, Leading(pattern))
  ELSE Len(segs) = Len(pattern) /\ SegmentsAgree(segs, pattern)
MatchingRoutes(segs, routes) ==
  {i \in 1..Len(routes) : PatternMatches(segs, routes[i])}

\* C24: matchRoute returns the first route of the list whose pattern matches
\* the path and null when none matches; on a list ordered by scanRoutes, a
\* path matched both by a pattern of static segments only and by a pattern
\* with a dynamic or catch-all segment gets the static pattern.
C24_FirstMatchStaticPreferred ==
  ev.op = "matchRoute" =>
    LET segs == segmentsOf(ev.x.path.pathname)
        routes == ev.x.routes
        M == MatchingRoutes(segs, routes)
    IN /\ (M = {}) = ~ev.v.ok
       /\ M # {} => \E i \in M : /\ ev.v.route = routes[i]
                                 /\ \A j \in M : i <= j
       /\ ( /\ \E i \in M : IsStaticOnly(routes[i])
            /\ \E j \in M : ~IsStaticOnly(routes[j]) )
          => IsStaticOnly(ev.v.route)

\* the part of C24 that holds: the first matching route of the list, or null
FirstMatchReturned ==
  ev.op = "matchRoute" =>
    LET segs == segmentsOf(ev.x.path.pathname)
        routes == ev.x.routes
        M == MatchingRoutes(segs, routes)
    IN /\ (M = {}) = ~ev.v.ok
       /\ M # {} => \E i \in M : /\ ev.v.route = routes[i]
                                 /\ \A j \in M : i <= j

Navigating == Len(stack) = 1 /\ Top.k = "top" /\ Top.ins.op = "navigate"
WritesPath(fn) ==
  \E i \in 1..Len(Programs[fn]) :
    Programs[fn][i].op \in {"write", "inc"} /\ Programs[fn][i].x = currentPath
\* navigate(p) with p the current path changes nothing and calls nobody
NavigateSameIsNoOp ==
  Navigating /\ Top.pc <= 2 /\ Top.ins.x = value[currentPath]
    => /\ dom' = dom /\ value' = value /\ listeners' = listeners
       /\ effects' = effects
       /\ Len(stack') <= 1
       /\ Top.pc = 2 => stack'[1].pc > Len(Code(Top))
\* the history changes by one pushState / replaceState of navigate's path,
\* and the write of currentPath is the next statement
HistoryStep ==
  dom.history' # dom.history
    => /\ Navigating
       /\ dom.history' = IF Top.ins.v.replace
                         THEN [dom.history EXCEPT ![Len(dom.history)] = Top.ins.x]
                         ELSE Append(dom.history, Top.ins.x)
       /\ Code(stack'[1])[stack'[1].pc] = Ins("write", currentPath, Top.ins.x)
\* navigate writes currentPath right after its pushState / replaceState
WriteFollowsHistory ==
  Navigating /\ At("write")
    => /\ ev.op = (IF Top.ins.v.replace THEN "replaceState" ELSE "pushState")
       /\ ev.x = Top.ins.x
       /\ value'[currentPath] = Top.ins.x

RECURSIVE BodyNow(_), ValueNow(_, _)
ValueNow(fn, i) ==
  IF i > Len(Programs[fn]) THEN 0
  ELSE (IF Programs[fn][i].op = "read" THEN value[Programs[fn][i].x]
        ELSE BodyNow(Programs[fn][i].x)) + ValueNow(fn, i + 1)
BodyNow(c) == ValueNow(ComputedFn(c), 1)
\* computed c reads signal s, directly or through the computeds it reads
RECURSIVE DependsOn(_, _)
DependsOn(c, s) ==
  \/ s \in DirectReads(ComputedFn(c), "read")
  \/ \E d \in DirectReads(ComputedFn(c), "readc") : DependsOn(d, s)

\* C27: updates propagate in dependency order: when a signal write triggers
\* a run of an effect, every computed the effect reads that depends on the
\* written signal is already stale, so the effect of a diamond reads from
\* both computeds the value over the new signal, and it runs once per write.
C27_DependencyOrder ==
  /\ [][ /\ \A e \in Effs :
              ( /\ Running /\ stack[1].ins.op = "write"
                /\ effects'[e].runs = effects[e].runs + 1 )
              => \A c \in DirectReads(effects[e].fn, "readc") :
                   DependsOn(c, stack[1].ins.x) => isStale'[c]
         /\ ( /\ At("readc") /\ Top.k = "execute" /\ Top.fn = "diamond"
              /\ ev'.op = "readcRet" )
            => ev'.v = BodyNow(Cur.x) ]_vars
  /\ [](~Running =>
          \A e \in Effs :
            effects[e].fn = "diamond" =>
              effects[e].runs = 1 + ChangesSince(e, a) + ChangesSince(e, b))

\* a body that only reads, with tracking: signals and computeds
PureTracked(c) ==
  \A i \in 1..Len(Programs[ComputedFn(c)]) :
    Programs[ComputedFn(c)][i].op \in {"read", "readc"}

C29_ContextIsTopOfStack ==
  /\ \/ currentListener = null
     \/ /\ listenerStack # << >>
        /\ currentListener = listenerStack[Len(listenerStack)]
  /\ Len(listenerStack) = Len(Evaluating(stack))
  /\ Evaluating(stack) = << >> =>
       currentListener = null /\ listenerStack = << >>

\* inside the batch of an effect's re-run, after an earlier body has thrown:
\* one computation is being evaluated and the context is none
C29_Witness ==
  /\ Running /\ Top.k = "batch"
  /\ hist.throws > 0
  /\ Len(listenerStack) = 1 /\ currentListener = null

IsPrefix(q, r) == Len(q) <= Len(r) /\ SubSeq(r, 1, Len(q)) = q

C31_ThrowLeavesWrite ==
  /\ [][ (Running /\ Top.k = "throw" /\ Len(stack) > 1) =>
           LET f == stack[Len(stack) - 1]
           IN /\ value' = value
              /\ f.k = "forEachS" =>
                   /\ stack' = Append(SubSeq(stack, 1, Len(stack) - 2), Top)
                   /\ \A e \in Effs : effects'[e].runs = effects[e].runs
                   /\ value[f.id] = stack[Len(stack) - 2].ins.v
              /\ f.k = "execute" => ~effects'[f.id].isRunning ]_vars
  /\ [](ev.op = "caught" =>
          /\ ~Running
          /\ \A e \in Effs : ~effects[e].isRunning)

\* a(1) with two subscribed effects, the first one's re-run throws: the
\* write is left with a = 1 and the second effect has not run for it
C31_Witness ==
  /\ ev.op = "caught" /\ hist.curCall = "write"
  /\ \E i, j \in 1..Len(listeners[a]) :
       /\ i < j /\ listeners[a][i].k = "e" /\ listeners[a][j].k = "e"
       /\ effects[listeners[a][i].id].runs = 2
       /\ effects[listeners[a][j].id].runs = 1
       /\ ChangesSince(listeners[a][j].id, a) = 1

\* C32: the re-entrancy guard covers the cleanup phase: while the cleanup of
\* an effect is being called neither the effect's body nor its cleanup is
\* entered again, and a write that triggers the effect ends with the body
\* executed once (a single effect has run at most once per call made).
C32_CleanupPhaseIsGuarded ==
  /\ \A i, j \in 1..Len(stack) :
       (i < j /\ stack[i].k = "cleanup" /\ stack[i].ins.op = "execute") =>
          ~(stack[j].k \in {"execute", "cleanup"} /\ stack[j].id = stack[i].id)
  /\ (~Running /\ Len(effects) = 1 /\ effects[1].fn = "cleanWriter") =>
       effects[1].runs <= hist.ops

RECURSIVE DynamicBindings(_), BindingsOfAll(_)
\* the dynamic bindings of a tree: its signal-valued attributes and its
\* components
DynamicBindings(node) ==
  CASE node.t = "element" ->
         Cardinality({i \in 1..Len(node.props) :
                        node.props[i].kind \in {"signal", "computed"}})
           + BindingsOfAll(node.children)
    [] node.t = "component" -> 1 + DynamicBindings(Components[node.fn].rendered)
    [] OTHER -> 0
BindingsOfAll(children) ==
  IF Len(children) = 0 THEN 0
  ELSE DynamicBindings(Head(children)) + BindingsOfAll(Tail(children))
\* the effects a write can still invoke
LiveEffects ==
  {e \in Effs : \/ \E s \in Signals : \E i \in 1..Len(listeners[s]) :
                      listeners[s][i] = Listener("e", e)
                \/ \E c \in Computeds : \E i \in 1..Len(clisteners[c]) :
                      clisteners[c][i] = Listener("e", e)}

\* C33: for a fixed rendered tree, however many times the component's
\* signals are written, the number of live effects and the length of the
\* render's disposer list stay within the number of dynamic bindings of the
\* tree (a re-run of the component effect disposes what its previous run
\* created).
C33_EffectsBoundedByBindings ==
  (dom.state = "mounted" /\ ~Running) =>
     /\ Len(dom.disposers) <= DynamicBindings(Trees[dom.tree])
     /\ Cardinality(LiveEffects) <= DynamicBindings(Trees[dom.tree])

\* the same route, params and query (or both null)
Corresponds(m, n) ==
  /\ m.ok = n.ok
  /\ m.route = n.route /\ m.params = n.params /\ m.query = n.query

\* C34: once initRouter(routes) has been called, whenever no propagation is
\* in progress currentRoute() corresponds to
\* matchRoute(currentPath(), routes), whatever navigate calls and popstate
\* events came before.
C34_RouteFollowsPath ==
  (~Running /\ dom.initialized) =>
     Corresponds(value[currentRoute],
                 matchRoute(value[currentPath], dom.routeDefinitions))

\* what the navigation to pathname is to show once its component is loaded
PageOf(pathname) ==
  LET m == matchRoute(pathname, dom.routes)
  IN IF m.ok THEN Page("page", m.route, m.params, pathname)
     ELSE Page("404", << >>, {}, pathname)

\* C35: once every pending component load of the client router has
\* completed, the app element shows the component of the navigation started
\* last, which is the one of the URL in the address bar, in whatever order
\* the imports resolved.
C35_LastNavigationWins ==
  (dom.started > 0 /\ dom.pending = << >> /\ ~dom.unloaded
     /\ dom.app.kind # "error") =>
     /\ dom.app = PageOf(dom.last)
     /\ dom.last \in {dom.history[dom.at], pathnameOf(dom.history[dom.at])}

\* C36: after the hot-reload WebSocket closes the client reconnects: every
\* close is eventually followed by the creation of a new WebSocket (unless
\* the page is reloaded), and at most one hot-reload connection is open at
\* a time.
C36_ReconnectsAfterClose ==
  /\ [](Cardinality({i \in 1..Len(dom.sockets) :
                       dom.sockets[i] \in {"connecting", "open"}}) <= 1)
  /\ \A n \in 1..MaxOps :
       (Len(dom.sockets) = n /\ dom.sockets[n] = "closed")
          ~> (Len(dom.sockets) > n \/ dom.unloaded)

\* the rule of the documentation that applies to a prop, first match first
RuleOf(p) ==
  IF startsWith(p.key, "on") /\ IsFunction(p) THEN "event"
  ELSE IF p.key = "ref" /\ IsFunction(p) THEN "ref"
  ELSE IF HasPeek(p) THEN "bound"
  ELSE IF p.kind # "null" THEN "static"
  ELSE "nothing"
\* the element a form was built into (the one element of the document)
FormNode == CHOOSE n \in NodeIds : dom.nodes[n].tag = Forms[dom.tree].type
EventsFor(p) ==
  {i \in 1..Len(dom.nodes[FormNode].events) :
     dom.nodes[FormNode].events[i].handler.key = p.key}
RefsFor(p) ==
  {i \in 1..Len(dom.nodes[FormNode].refs) :
     dom.nodes[FormNode].refs[i].key = p.key}
EffectsFor(p) ==
  {e \in Effs : effects[e].fn = "updateAttribute" /\ effects[e].src.key = p.key}

\* C37: once a string-tagged element has been built, each of its attributes
\* has been handled by the first rule that matches it: "on..." with a
\* function value is one event listener under the lower-cased name; "ref"
\* with a function value is one call with the created node; a function with
\* peek is one effect whose disposer is recorded; another non-null value is
\* a static string attribute; null is nothing.  A signal under an "on..."
\* or "ref" name has no effect bound to it, however the signals are written
\* afterwards.
C37_FirstMatchingRule ==
  (~Running /\ dom.state = "mounted" /\ dom.tree \in DOMAIN Forms) =>
    \A i \in 1..Len(Forms[dom.tree].props) :
      LET p == Forms[dom.tree].props[i]
          rule == RuleOf(p)
          attr == dom.nodes[FormNode].attrs[p.key]
      IN /\ Cardinality(EventsFor(p)) = (IF rule = "event" THEN 1 ELSE 0)
         /\ rule = "event" =>
              \A j \in EventsFor(p) :
                 dom.nodes[FormNode].events[j].name
                    = (CASE p.key = "onClick" -> "click"
                         [] p.key = "onInput" -> "input")
         /\ Cardinality(RefsFor(p)) = (IF rule = "ref" THEN 1 ELSE 0)
         /\ Cardinality(EffectsFor(p)) = (IF rule = "bound" THEN 1 ELSE 0)
         /\ rule = "bound" =>
              \A e \in EffectsFor(p) :
                 /\ effects[e].el = FormNode /\ effects[e].key = p.key
                 /\ \E k \in 1..Len(dom.disposers) : dom.disposers[k] = e
         /\ rule = "static" => attr = StringOf(p)
         /\ rule \in {"event", "ref", "nothing"} => attr = Absent

C37_Witness ==
  /\ ~Running /\ dom.state = "mounted" /\ dom.tree = "button"
  /\ hist.changes[a] >= 2
  /\ value[b] = FormNode
  /\ \E j \in 1..Len(dom.nodes[FormNode].events) :
       /\ dom.nodes[FormNode].events[j].name = "input"
       /\ dom.nodes[FormNode].events[j].handler.kind = "signal"

RECURSIVE FnCount(_, _), ChildrenAt(_, _), CallsOfBuilt(_, _)
\* how many times signal s is passed as a child, arrays included
FnCount(children, s) ==
  IF Len(children) = 0 THEN 0
  ELSE LET c == Head(children)
       IN (CASE c.t = "function" -> IF c.s = s THEN 1 ELSE 0
             [] c.t = "array" -> FnCount(c.items, s)
             [] OTHER -> 0) + FnCount(Tail(children), s)
\* the children h is to store for the arguments, the signals having the
\* values vals: the string of its value for a signal
ChildrenAt(children, vals) ==
  IF Len(children) = 0 THEN << >>
  ELSE LET c == Head(children)
       IN (CASE c.t = "function" -> << Text(StringOfValue(vals[c.s])) >>
             [] c.t = "array" -> ChildrenAt(c.items, vals)
             [] c.t = "null" -> << >>
             [] OTHER -> << c >>) \o ChildrenAt(Tail(children), vals)
CallsOfBuilt(n, s) ==
  IF n = 0 THEN 0
  ELSE FnCount(hist.built[n].src, s) + CallsOfBuilt(n - 1, s)

====
